---------------------------- MODULE Spec2Model ----------------------------
(***************************************************************************)
(* A model of yukinator, a typed client of the Ergast F1 REST API:         *)
(*   yukinator/utils.py      Cache (process-wide cached session), flat_dict *)
(*   yukinator/objects.py    field converters and the DTO records           *)
(*   yukinator/yukinator.py  Yuki: _build_url, _make_request, the getters   *)
(*                                                                         *)
(* Python strings are TLA+ strings (TLC evaluates Len, \o, SubSeq on them). *)
(* Every Python value is a pair <<tag, payload>>, the tag first, so that     *)
(* values of different Python types can be compared.                       *)
(***************************************************************************)
EXTENDS Integers, Sequences, FiniteSets, TLC

VARIABLES
    Cache_session,  \* Cache._session: PyNone or the open CachedSession
    Cache_path,     \* Cache._path
    store,          \* per existing directory: the sqlite cache, url -> entry
    opened,         \* directories whose cache file has been opened or created
    clients,        \* the Yuki instances constructed so far
    ncalls,         \* number of operations run so far
    inp,            \* the arguments of the pure function under study
    last            \* what the most recent operation was and how it ended

vars == <<Cache_session, Cache_path, store, opened, clients, ncalls, inp, last>>

-----------------------------------------------------------------------------
(* Python values *)

Tag(x) == x[1]
Val(x) == x[2]

PyNone == <<"none", 0>>
PyStr(s) == <<"str", s>>
PyInt(n) == <<"int", n>>
PyBool(b) == <<"bool", b>>
PyList(xs) == <<"list", xs>>
\* a dict is its items in insertion order, each a pair <<key, value>>
PyDict(items) == <<"dict", items>>
\* a raised exception: its class and, for an HTTPError, the response's status
Raise(kind) == <<"raise", kind, 0>>
RaiseHTTPError(status) == <<"raise", "HTTPError", status>>
IsRaise(x) == Tag(x) = "raise"
Kind(x) == x[2]

-----------------------------------------------------------------------------
(* Strings *)

UpperLetters == "ABCDEFGHIJKLMNOPQRSTUVWXYZ"
LowerLetters == "abcdefghijklmnopqrstuvwxyz"
Digits == "0123456789"

Chr(s, i) == SubSeq(s, i, i)

\* position of the one-character string c in s, 0 when absent
IndexIn(c, s) ==
    IF \E i \in 1..Len(s) : Chr(s, i) = c
    THEN CHOOSE i \in 1..Len(s) : Chr(s, i) = c
    ELSE 0

CharLower(c) ==
    IF IndexIn(c, UpperLetters) > 0 THEN Chr(LowerLetters, IndexIn(c, UpperLetters)) ELSE c

CharUpper(c) ==
    IF IndexIn(c, LowerLetters) > 0 THEN Chr(UpperLetters, IndexIn(c, LowerLetters)) ELSE c

RECURSIVE StrLower(_)
\* str.lower(): every character lower-cased
StrLower(s) ==
    IF s = "" THEN "" ELSE CharLower(Chr(s, 1)) \o StrLower(Tail(s))

\* str.capitalize(): first character upper-cased, all the others lower-cased
StrCapitalize(s) ==
    IF s = "" THEN "" ELSE CharUpper(Chr(s, 1)) \o StrLower(Tail(s))

\* s with only its first character lower-cased, upper-cased
LowerFirst(s) == IF s = "" THEN "" ELSE CharLower(Chr(s, 1)) \o Tail(s)
UpperFirst(s) == IF s = "" THEN "" ELSE CharUpper(Chr(s, 1)) \o Tail(s)

RECURSIVE NatToStr(_)
NatToStr(n) ==
    IF n < 10 THEN Chr(Digits, n + 1)
    ELSE NatToStr(n \div 10) \o Chr(Digits, (n % 10) + 1)

\* str(n) of an int
IntToStr(n) == IF n < 0 THEN "-" \o NatToStr(0 - n) ELSE NatToStr(n)

RECURSIVE StrJoin(_, _)
\* sep.join(parts)
StrJoin(sep, parts) ==
    IF parts = <<>> THEN ""
    ELSE IF Len(parts) = 1 THEN parts[1]
    ELSE parts[1] \o sep \o StrJoin(sep, Tail(parts))

\* str(x) of a value that is a string or an int
StrOf(x) == IF Tag(x) = "int" THEN IntToStr(Val(x)) ELSE Val(x)

\* bool(x): the truth value Python gives None, a string, an int, a bool
Truthy(x) ==
    CASE Tag(x) = "none" -> FALSE
      [] Tag(x) = "str"  -> Val(x) # ""
      [] Tag(x) = "int"  -> Val(x) # 0
      [] Tag(x) = "bool" -> Val(x)
      [] Tag(x) \in {"list", "dict"} -> Val(x) # <<>>
      [] OTHER        -> TRUE

-----------------------------------------------------------------------------
(* Yuki._build_url *)

base_url == "https://api.jolpi.ca/ergast/f1/"

RECURSIVE TruthyStrs(_)
\* [str(suffix) for suffix in endpoints if suffix]
TruthyStrs(endpoints) ==
    IF endpoints = <<>> THEN <<>>
    ELSE IF Truthy(Head(endpoints))
         THEN <<StrOf(Head(endpoints))>> \o TruthyStrs(Tail(endpoints))
         ELSE TruthyStrs(Tail(endpoints))

\* a _build_url that writes every suffix, None too, at its position
build_url_KeepsNone(endpoints) ==
    base_url
    \o StrJoin("/", [i \in 1..Len(endpoints) |->
                        IF Tag(endpoints[i]) = "none" THEN "None" ELSE StrOf(endpoints[i])])
    \o ".json?limit=1000"

build_url(endpoints) ==
    base_url \o StrJoin("/", TruthyStrs(endpoints)) \o ".json?limit=1000"

-----------------------------------------------------------------------------
(* utils.flat_dict *)

DictKeys(items) == {items[i][1] : i \in 1..Len(items)}

\* d[k] = v on a dict given by its items: an existing key keeps its place
DictSet(items, k, v) ==
    IF k \in DictKeys(items)
    THEN [i \in 1..Len(items) |-> IF items[i][1] = k THEN <<k, v>> ELSE items[i]]
    ELSE Append(items, <<k, v>>)

RECURSIVE DictFromPairs(_)
\* dict(pairs): the pairs inserted one after the other
DictFromPairs(pairs) ==
    IF pairs = <<>> THEN <<>>
    ELSE LET n == Len(pairs)
         IN  DictSet(DictFromPairs(SubSeq(pairs, 1, n - 1)), pairs[n][1], pairs[n][2])

\* k in keys
KeyInList(k, keys) == \E i \in 1..Len(Val(keys)) : Val(keys)[i] = k

\* a new_key that changes the case of the first characters only
NewKey_FirstCharsOnly(parent_key, k) ==
    IF parent_key # "" THEN LowerFirst(parent_key) \o UpperFirst(k) ELSE k

\* a new_key that is built the same way under an empty parent key
NewKey_NoTopLevelCase(parent_key, k) == StrLower(parent_key) \o StrCapitalize(k)

\* new_key = parent_key.lower() + k.capitalize() if parent_key else k
NewKey(parent_key, k) ==
    IF parent_key # "" THEN StrLower(parent_key) \o StrCapitalize(k) ELSE k

\* whether _flatten_dict_gen recurses into the value v found under key k
Descends(k, v, keys) ==
    IF Truthy(keys) THEN Tag(v) = "dict" /\ KeyInList(k, keys) ELSE Tag(v) = "dict"

RECURSIVE flatten_dict_gen(_, _, _)
\* the pairs _flatten_dict_gen(d, parent_key) yields, in order; flatten_dict(v,
\* new_key).items() is the dict built from the pairs of the nested call
flatten_dict_gen(items, parent_key, keys) ==
    IF items = <<>> THEN <<>>
    ELSE LET k == items[1][1]
             v == items[1][2]
             new_key == NewKey(parent_key, k)
             here == IF Descends(k, v, keys)
                     THEN DictFromPairs(flatten_dict_gen(Val(v), new_key, keys))
                     ELSE << <<new_key, v>> >>
         IN  here \o flatten_dict_gen(Tail(items), parent_key, keys)

flatten_dict(items, parent_key, keys) ==
    DictFromPairs(flatten_dict_gen(items, parent_key, keys))

\* flat_dict(d, keys), d and the result being dicts
flat_dict(d, keys) == PyDict(flatten_dict(Val(d), "", keys))

-----------------------------------------------------------------------------
(* int(x), x[key] *)

IsDigit(c) == IndexIn(c, Digits) > 0
AllDigits(s) == s # "" /\ \A i \in 1..Len(s) : IsDigit(Chr(s, i))

RECURSIVE ParseNat(_)
ParseNat(s) ==
    IF s = "" THEN 0
    ELSE ParseNat(SubSeq(s, 1, Len(s) - 1)) * 10 + (IndexIn(Chr(s, Len(s)), Digits) - 1)

\* int(x): of an int, of a str (an optional sign, then digits; the strings here
\* hold no blanks and no underscores), of any other value; an exception raised
\* while computing x is passed on
py_int(x) ==
    CASE IsRaise(x) -> x
      [] Tag(x) = "int" -> x
      [] Tag(x) = "str" ->
            LET s == Val(x)
                signed == s # "" /\ Chr(s, 1) \in {"-", "+"}
                digits == IF signed THEN Tail(s) ELSE s
            IN  IF ~AllDigits(digits) THEN Raise("ValueError")
                ELSE IF signed /\ Chr(s, 1) = "-" THEN PyInt(0 - ParseNat(digits))
                ELSE PyInt(ParseNat(digits))
      [] OTHER -> Raise("TypeError")

DictLookup(items, k) == items[CHOOSE i \in 1..Len(items) : items[i][1] = k][2]

\* x[k] for a string k; an exception raised before is passed on
Subscript(x, k) ==
    IF IsRaise(x) THEN x
    ELSE IF Tag(x) # "dict" THEN Raise("TypeError")
    ELSE IF k \in DictKeys(Val(x)) THEN DictLookup(Val(x), k)
    ELSE Raise("KeyError")

-----------------------------------------------------------------------------
(* HTTP responses *)

\* requests.Response: the body is the JSON value it parses to, or NotJson
Response(status, body) == [status |-> status, body |-> body, from_cache |-> FALSE]
NotJson == <<"notjson", 0>>

\* the outcome of a GET: <<"response", r>> or a raised exception
Got(r) == <<"response", r>>

\* response.ok: raise_for_status() raises for the error statuses 400..599
ResponseOk(r) == ~(r.status >= 400 /\ r.status < 600)

\* response.json()
ResponseJson(r) == IF r.body = NotJson THEN Raise("JSONDecodeError") ELSE r.body

-----------------------------------------------------------------------------
(* utils.Cache *)

\* the existing directories of the file system
ExistingDirs == {"d1", "d2"}

RECURSIVE CollapseSlashes(_)
CollapseSlashes(s) ==
    IF Len(s) < 2 THEN s
    ELSE IF Chr(s, 1) = "/" /\ Chr(s, 2) = "/" THEN CollapseSlashes(Tail(s))
    ELSE Chr(s, 1) \o CollapseSlashes(Tail(s))

\* os.path.normpath of a path without "." and ".." components
NormPath(s) ==
    LET c == CollapseSlashes(s)
    IN  IF Len(c) > 1 /\ Chr(c, Len(c)) = "/" THEN SubSeq(c, 1, Len(c) - 1) ELSE c

\* os.path.join(path, name) of a relative name
PathJoin(path, name) ==
    IF path = "" THEN name
    ELSE IF Chr(path, Len(path)) = "/" THEN path \o name
    ELSE path \o "/" \o name

\* os.path.exists(path)
PathExists(path) == NormPath(path) \in ExistingDirs

\* Cache.path_create(path)
path_create(path) ==
    IF ~PathExists(path) THEN Raise("WrongDirectory")
    ELSE PyStr(NormPath(PathJoin(path, "yuki_cache")))

\* the cache files a session can be opened on
CacheFiles == {Val(path_create(d)) : d \in ExistingDirs}

\* the CachedSession(cache_name, backend="sqlite", allowable_methods=("GET"),
\* expire_after, stale_if_error=True, headers)
Session(cache_name, headers, expire_after) ==
    <<"session", [cache_name |-> cache_name, headers |-> headers,
                  expire_after |-> expire_after]>>

\* the statuses a CachedSession stores (allowable_codes is not passed)
allowable_codes == {200}

\* a cache_enable that clears the open session's cache before it validates path
cache_enable_ClearsFirst(path, headers, expires_after, clear) ==
    LET name == path_create(path)
        cleared == IF Truthy(clear) /\ Cache_session # PyNone
                   THEN [store EXCEPT ![Val(Cache_session).cache_name] = {}]
                   ELSE store
    IN  IF IsRaise(name)
        THEN [path |-> path, session |-> Cache_session, store |-> cleared,
              opened |-> opened, result |-> name]
        ELSE [path |-> path,
              session |-> Session(Val(name), headers, expires_after),
              store |-> IF Truthy(clear) THEN [store EXCEPT ![Val(name)] = {}] ELSE store,
              opened |-> opened \cup {Val(name)},
              result |-> PyNone]

\* a cache_enable that opens a session only when none is open yet
cache_enable_KeepsFirst(path, headers, expires_after, clear) ==
    LET name == path_create(path)
    IN  IF IsRaise(name)
        THEN [path |-> path, session |-> Cache_session, store |-> store,
              opened |-> opened, result |-> name]
        ELSE [path |-> path,
              session |-> IF Cache_session # PyNone THEN Cache_session
                          ELSE Session(Val(name), headers, expires_after),
              store |-> IF Truthy(clear) THEN [store EXCEPT ![Val(name)] = {}] ELSE store,
              opened |-> opened \cup {Val(name)},
              result |-> PyNone]

\* a cache_enable that drops the open session before it validates path
cache_enable_DropsOnFailure(path, headers, expires_after, clear) ==
    LET name == path_create(path)
    IN  IF IsRaise(name)
        THEN [path |-> path, session |-> PyNone, store |-> store,
              opened |-> opened, result |-> name]
        ELSE [path |-> path,
              session |-> Session(Val(name), headers, expires_after),
              store |-> IF Truthy(clear) THEN [store EXCEPT ![Val(name)] = {}] ELSE store,
              opened |-> opened \cup {Val(name)},
              result |-> PyNone]

\* Cache.cache_enable(path, headers, expires_after, clear): the class state and
\* the cache files after the call, and what the call raised
cache_enable(path, headers, expires_after, clear) ==
    LET name == path_create(path)
    IN  IF IsRaise(name)
        THEN [path |-> path, session |-> Cache_session, store |-> store,
              opened |-> opened, result |-> name]
        ELSE [path |-> path,
              session |-> Session(Val(name), headers, expires_after),
              store |-> IF Truthy(clear) THEN [store EXCEPT ![Val(name)] = {}] ELSE store,
              opened |-> opened \cup {Val(name)},
              result |-> PyNone]

\* the entry of the cache file f for url, as a set (empty when there is none)
Cached(f, url) == {e \in store[f] : e.url = url}

\* a session that stores no response
SaveResponse_Nothing(f, url, r) == store

SaveResponse(f, url, r) ==
    [store EXCEPT ![f] = {e \in @ : e.url # url} \cup {[url |-> url, resp |-> r, fresh |-> TRUE]}]

\* CachedSession.get(url) of session s when the network would answer net:
\* an unexpired entry is returned without a request; otherwise the request is
\* sent, a response with an allowable status is stored, and when the request
\* fails (an exception, an error status) an expired entry is returned instead.
\* entry tells what the cache held for url when the call began.
session_get(s, url, net) ==
    LET hit == Cached(s.cache_name, url)
        entry == CHOOSE e \in hit : TRUE
        cached == Got([entry.resp EXCEPT !.from_cache = TRUE])
        failed == IsRaise(net) \/ ~ResponseOk(Val(net))
    IN  IF hit # {} /\ entry.fresh
        THEN [store |-> store, sent |-> FALSE, out |-> cached, entry |-> "fresh"]
        ELSE IF hit # {} /\ failed
        THEN [store |-> store, sent |-> TRUE, out |-> cached, entry |-> "stale"]
        ELSE [store |-> IF ~IsRaise(net) /\ Val(net).status \in allowable_codes
                        THEN SaveResponse(s.cache_name, url, Val(net))
                        ELSE store,
              sent |-> TRUE, out |-> net,
              entry |-> IF hit # {} THEN "stale" ELSE "none"]

\* Cache.cache_get(url)
cache_get(url, net) ==
    IF Cache_session = PyNone
    THEN [store |-> store, sent |-> FALSE, out |-> Raise("AttributeError"), entry |-> "none"]
    ELSE session_get(Val(Cache_session), url, net)

-----------------------------------------------------------------------------
(* Yuki.__init__, Yuki._make_request *)

\* the attributes Yuki.__init__ sets
Yuki(headers, cache_enabled, cache_dir, expires_after, force_clear) ==
    [headers |-> headers,
     cache_enabled |-> cache_enabled,
     cache_dir |-> IF cache_enabled THEN cache_dir ELSE PyNone,
     expires_after |-> IF cache_enabled THEN expires_after ELSE PyNone,
     force_clear |-> IF cache_enabled THEN force_clear ELSE PyNone]

\* a _make_request that fails only on a total equal to 0
CheckResponse_TotalZeroOnly(out) ==
    IF IsRaise(out) THEN out
    ELSE IF ~ResponseOk(Val(out)) THEN RaiseHTTPError(Val(out).status)
    ELSE LET result == ResponseJson(Val(out))
             total == py_int(Subscript(Subscript(result, "MRData"), "total"))
         IN  IF IsRaise(result) THEN result
             ELSE IF IsRaise(total) THEN total
             ELSE IF Val(total) = 0 THEN Raise("WrongQueryParameters")
             ELSE result

\* a _make_request that parses the body before it looks at the status
CheckResponse_ParsesFirst(out) ==
    IF IsRaise(out) THEN out
    ELSE LET result == ResponseJson(Val(out))
             total == py_int(Subscript(Subscript(result, "MRData"), "total"))
         IN  IF IsRaise(result) THEN result
             ELSE IF IsRaise(total) THEN total
             ELSE IF Val(total) <= 0 THEN Raise("WrongQueryParameters")
             ELSE IF ~ResponseOk(Val(out)) THEN RaiseHTTPError(Val(out).status)
             ELSE result

\* what _make_request does with the response it got
CheckResponse(out) ==
    IF IsRaise(out) THEN out
    ELSE IF ~ResponseOk(Val(out)) THEN RaiseHTTPError(Val(out).status)
    ELSE LET result == ResponseJson(Val(out))
             total == py_int(Subscript(Subscript(result, "MRData"), "total"))
         IN  IF IsRaise(result) THEN result
             ELSE IF IsRaise(total) THEN total
             ELSE IF Val(total) <= 0 THEN Raise("WrongQueryParameters")
             ELSE result

\* self._make_request(url) when the network would answer net
make_request(self, url, net) ==
    LET got == IF self.cache_enabled
               THEN cache_get(url, net)
               ELSE [store |-> store, sent |-> TRUE, out |-> net, entry |-> "none"]
    IN  [store |-> got.store, sent |-> got.sent, out |-> got.out, entry |-> got.entry,
         result |-> CheckResponse(got.out)]

-----------------------------------------------------------------------------
(* objects: the converters of the record fields *)

\* a float, kept as its number of thousandths
PyFloat(millis) == <<"float", millis>>
\* datetime.date(y, m, d); datetime.time(h, m, s, tzinfo=utc)
PyDate(y, m, d) == <<"date", <<y, m, d>>>>
PyTime(h, m, s) == <<"time", <<h, m, s, "UTC">>>>

\* position of the first occurrence of the one-character string c in s, else 0
FirstIndex(c, s) ==
    IF \E i \in 1..Len(s) : Chr(s, i) = c
    THEN CHOOSE i \in 1..Len(s) : Chr(s, i) = c /\ \A j \in 1..(i - 1) : Chr(s, j) # c
    ELSE 0

RECURSIVE SplitOn(_, _)
\* s.split(c)
SplitOn(s, c) ==
    LET i == FirstIndex(c, s)
    IN  IF i = 0 THEN <<s>>
        ELSE <<SubSeq(s, 1, i - 1)>> \o SplitOn(SubSeq(s, i + 1, Len(s)), c)

\* the thousandths a fraction part stands for (its first three digits)
FractionMillis(frac) == ParseNat(SubSeq(frac \o "000", 1, 3))

\* float(x): of a float, of an int, of a str (an optional sign, digits with at
\* most one "." and at most three decimals; the strings here hold no blanks,
\* no exponent and no underscores), of any other value
py_float(x) ==
    CASE IsRaise(x) -> x
      [] Tag(x) = "float" -> x
      [] Tag(x) = "int" -> PyFloat(Val(x) * 1000)
      [] Tag(x) = "str" ->
            LET s == Val(x)
                signed == s # "" /\ Chr(s, 1) \in {"-", "+"}
                parts == SplitOn(IF signed THEN Tail(s) ELSE s, ".")
                whole == parts[1]
                frac == IF Len(parts) = 2 THEN parts[2] ELSE ""
                wellFormed == /\ Len(parts) <= 2
                              /\ whole = "" \/ AllDigits(whole)
                              /\ frac = "" \/ AllDigits(frac)
                              /\ whole # "" \/ frac # ""
                millis == ParseNat(whole) * 1000 + FractionMillis(frac)
            IN  IF ~wellFormed THEN Raise("ValueError")
                ELSE IF signed /\ Chr(s, 1) = "-" THEN PyFloat(0 - millis)
                ELSE PyFloat(millis)
      [] OTHER -> Raise("TypeError")

IsLeap(y) == (y % 4 = 0 /\ y % 100 # 0) \/ y % 400 = 0
DaysInMonth(y, m) ==
    IF m = 2 THEN (IF IsLeap(y) THEN 29 ELSE 28)
    ELSE IF m \in {4, 6, 9, 11} THEN 30 ELSE 31

\* a strptime number of one or two digits
OneOrTwoDigits(s) == AllDigits(s) /\ Len(s) <= 2

\* to_date(f): strptime(f, "%Y-%m-%d").date()
to_date(f) ==
    IF Tag(f) # "str" THEN Raise("TypeError")
    ELSE LET parts == SplitOn(Val(f), "-")
             wellFormed == /\ Len(parts) = 3
                           /\ AllDigits(parts[1]) /\ Len(parts[1]) = 4
                           /\ OneOrTwoDigits(parts[2])
                           /\ OneOrTwoDigits(parts[3])
             y == ParseNat(parts[1])
             m == ParseNat(parts[2])
             d == ParseNat(parts[3])
         IN  IF ~wellFormed THEN Raise("ValueError")
             ELSE IF y < 1 \/ m < 1 \/ m > 12 \/ d < 1 \/ d > DaysInMonth(y, m)
             THEN Raise("ValueError")
             ELSE PyDate(y, m, d)

\* to_time(f): strptime(f[:-1], "%H:%M:%S").time().replace(tzinfo=utc)
to_time(f) ==
    IF Tag(f) # "str" THEN Raise("TypeError")
    ELSE LET cut == SubSeq(Val(f), 1, Len(Val(f)) - 1)
             parts == SplitOn(cut, ":")
             wellFormed == /\ Len(parts) = 3
                           /\ \A i \in 1..3 : OneOrTwoDigits(parts[i])
             h == ParseNat(parts[1])
             m == ParseNat(parts[2])
             s == ParseNat(parts[3])
         IN  IF ~wellFormed THEN Raise("ValueError")
             ELSE IF h > 23 \/ m > 59 \/ s > 59 THEN Raise("ValueError")
             ELSE PyTime(h, m, s)

-----------------------------------------------------------------------------
(* objects: the record classes *)

\* a field of a record class: its name, whether __init__ requires it (it has
\* no default; every default is None), its converter with the class the
\* converter builds, and whether the converter is wrapped in converters.optional
Field(name, required, conv, arg, optional) ==
    [name |-> name, required |-> required, conv |-> conv, arg |-> arg, optional |-> optional]
Plain(name) == Field(name, TRUE, "", "", FALSE)
PlainOrNone(name) == Field(name, FALSE, "", "", FALSE)
Converted(name, conv) == Field(name, TRUE, conv, "", FALSE)
ConvertedOrNone(name, conv) == Field(name, FALSE, conv, "", TRUE)
Nested(name, cls) == Field(name, TRUE, "dto", cls, FALSE)
NestedOrNone(name, cls) == Field(name, FALSE, "dto", cls, TRUE)
NestedList(name, cls) == Field(name, TRUE, "dto_list", cls, FALSE)

DriverDTO ==
    <<Plain("driverId"), Plain("url"), Plain("givenName"), Plain("familyName"),
      Converted("dateOfBirth", "to_date"), Plain("nationality"),
      ConvertedOrNone("permanentNumber", "int"), PlainOrNone("code")>>
ConstructorDTO ==
    <<Plain("constructorId"), Plain("url"), Plain("name"), Plain("nationality")>>
LocationDTO ==
    <<Converted("lat", "float"), Converted("long", "float"),
      Plain("locality"), Plain("country")>>
CircuitDTO ==
    <<Plain("circuitId"), Plain("url"), Plain("circuitName"),
      Nested("Location", "LocationDTO")>>
RaceDTO ==
    <<Converted("season", "int"), Converted("round", "int"), Plain("url"),
      Plain("raceName"), Nested("Circuit", "CircuitDTO"),
      Converted("date", "to_date"), ConvertedOrNone("time", "to_time"),
      ConvertedOrNone("firstpracticeDate", "to_date"),
      ConvertedOrNone("firstpracticeTime", "to_time"),
      ConvertedOrNone("secondpracticeDate", "to_date"),
      ConvertedOrNone("secondpracticeTime", "to_time"),
      ConvertedOrNone("thirdpracticeDate", "to_date"),
      ConvertedOrNone("thirdpracticeTime", "to_time"),
      ConvertedOrNone("qualifyingDate", "to_date"),
      ConvertedOrNone("qualifyingTime", "to_time"),
      ConvertedOrNone("sprintDate", "to_date"),
      ConvertedOrNone("sprintTime", "to_time")>>
TimeDTO ==
    <<ConvertedOrNone("millis", "int"), PlainOrNone("time")>>
AverageSpeedDTO ==
    <<PlainOrNone("units"), ConvertedOrNone("speed", "float")>>
FastestLapDTO ==
    <<ConvertedOrNone("rank", "int"), ConvertedOrNone("lap", "int"),
      NestedOrNone("Time", "TimeDTO"), NestedOrNone("AverageSpeed", "AverageSpeedDTO")>>
TimingDTO ==
    <<Plain("driverId"), Converted("position", "int"), Plain("time")>>
RaceResultDTO ==
    <<Nested("Driver", "DriverDTO"), Converted("number", "int"),
      Nested("Constructor", "ConstructorDTO"), Converted("position", "int"),
      Plain("positionText"), Converted("points", "float"), Converted("grid", "int"),
      Converted("laps", "int"), Plain("status"),
      NestedOrNone("Time", "TimeDTO"), NestedOrNone("FastestLap", "FastestLapDTO")>>
QualifyingResultDTO ==
    <<Nested("Driver", "DriverDTO"), Converted("number", "int"),
      Converted("position", "int"), Nested("Constructor", "ConstructorDTO"),
      PlainOrNone("Q1"), PlainOrNone("Q2"), PlainOrNone("Q3")>>
SprintResultDTO ==
    <<Converted("number", "int"), Nested("Driver", "DriverDTO"),
      Nested("Constructor", "ConstructorDTO"), Converted("position", "int"),
      Plain("positionText"), Converted("points", "float"), Converted("grid", "int"),
      Converted("laps", "int"), Plain("status"),
      NestedOrNone("Time", "TimeDTO"), NestedOrNone("FastestLap", "FastestLapDTO")>>
DriverStandingDTO ==
    <<Nested("Driver", "DriverDTO"), Converted("position", "int"),
      Plain("positionText"), Converted("points", "float"), Converted("wins", "float"),
      NestedList("Constructors", "ConstructorDTO")>>
ConstructorStandingDTO ==
    <<Nested("Constructor", "ConstructorDTO"), Converted("position", "int"),
      Plain("positionText"), Converted("points", "float"), Converted("wins", "int")>>
StatusDTO ==
    <<Converted("statusId", "int"), Plain("status"), Converted("count", "int")>>
LapDTO ==
    <<Converted("number", "int"), NestedList("Timings", "TimingDTO")>>
PitStopDTO ==
    <<Plain("driverId"), Converted("lap", "int"), Converted("stop", "int"),
      Plain("time"), Converted("duration", "float")>>
SeasonDTO ==
    <<Converted("season", "int"), Plain("url")>>

\* the fields of the class named cls, in declaration order
Schema(cls) ==
    CASE cls = "DriverDTO" -> DriverDTO
      [] cls = "ConstructorDTO" -> ConstructorDTO
      [] cls = "LocationDTO" -> LocationDTO
      [] cls = "CircuitDTO" -> CircuitDTO
      [] cls = "RaceDTO" -> RaceDTO
      [] cls = "TimeDTO" -> TimeDTO
      [] cls = "AverageSpeedDTO" -> AverageSpeedDTO
      [] cls = "FastestLapDTO" -> FastestLapDTO
      [] cls = "TimingDTO" -> TimingDTO
      [] cls = "RaceResultDTO" -> RaceResultDTO
      [] cls = "QualifyingResultDTO" -> QualifyingResultDTO
      [] cls = "SprintResultDTO" -> SprintResultDTO
      [] cls = "DriverStandingDTO" -> DriverStandingDTO
      [] cls = "ConstructorStandingDTO" -> ConstructorStandingDTO
      [] cls = "StatusDTO" -> StatusDTO
      [] cls = "LapDTO" -> LapDTO
      [] cls = "PitStopDTO" -> PitStopDTO
      [] cls = "SeasonDTO" -> SeasonDTO

\* an instance: its class and its fields in declaration order, each <<name, value>>
Dto(cls, fields) == <<"dto", <<cls, fields>>>>
DtoClass(r) == Val(r)[1]
DtoFields(r) == Val(r)[2]

\* what iterating over x yields, as a list, or the TypeError raised
Iterate(x) ==
    CASE IsRaise(x) -> x
      [] Tag(x) = "list" -> x
      [] Tag(x) = "dict" -> PyList([i \in 1..Len(Val(x)) |-> PyStr(Val(x)[i][1])])
      [] Tag(x) = "str" -> PyList([i \in 1..Len(Val(x)) |-> PyStr(Chr(Val(x), i))])
      [] OTHER -> Raise("TypeError")

RECURSIVE Construct(_, _), ConstructEach(_, _, _), Coerce(_, _)

\* a converter that hands back the raw value when the conversion fails
Coerce_KeepsRaw(f, v) ==
    LET done == IF f.conv = "" THEN v
                ELSE IF f.optional /\ Tag(v) = "none" THEN PyNone
                ELSE CASE f.conv = "int" -> py_int(v)
                       [] f.conv = "float" -> py_float(v)
                       [] f.conv = "to_date" -> to_date(v)
                       [] f.conv = "to_time" -> to_time(v)
                       [] f.conv = "dto" -> Construct(f.arg, v)
                       [] f.conv = "dto_list" -> ConstructEach(f.arg, Iterate(v), <<>>)
    IN  IF IsRaise(done) THEN v ELSE done

\* the converter of field f applied to v: none, converters.optional(...), int,
\* float, to_date, to_time, to_<class>_dto, to_<class>_dto_list
Coerce(f, v) ==
    IF f.conv = "" THEN v
    ELSE IF f.optional /\ Tag(v) = "none" THEN PyNone
    ELSE CASE f.conv = "int" -> py_int(v)
           [] f.conv = "float" -> py_float(v)
           [] f.conv = "to_date" -> to_date(v)
           [] f.conv = "to_time" -> to_time(v)
           [] f.conv = "dto" -> Construct(f.arg, v)
           [] f.conv = "dto_list" -> ConstructEach(f.arg, Iterate(v), <<>>)

\* [cls(**x) for x in ll], built being the records built so far
ConstructEach(cls, ll, built) ==
    IF IsRaise(ll) THEN ll
    ELSE IF Val(ll) = <<>> THEN PyList(built)
    ELSE LET here == Construct(cls, Head(Val(ll)))
         IN  IF IsRaise(here) THEN here
             ELSE ConstructEach(cls, PyList(Tail(Val(ll))), Append(built, here))

RECURSIVE SetFields(_, _, _)
\* the body of the generated __init__: the fields are set in declaration
\* order, each to its converter's result for the argument given or for the
\* default None; set holds the fields set so far
SetFields(fields, d, set) ==
    IF fields = <<>> THEN PyList(set)
    ELSE LET f == Head(fields)
             v == Coerce(f, IF f.name \in DictKeys(Val(d))
                            THEN DictLookup(Val(d), f.name)
                            ELSE PyNone)
         IN  IF IsRaise(v) THEN v
             ELSE SetFields(Tail(fields), d, Append(set, <<f.name, v>>))

\* a construction that ignores the keys that are no fields
Construct_IgnoresUnknown(cls, d) ==
    IF IsRaise(d) THEN d
    ELSE IF Tag(d) # "dict" THEN Raise("TypeError")
    ELSE LET fields == Schema(cls)
             given == DictKeys(Val(d))
             set == SetFields(fields, d, <<>>)
         IN  IF \E i \in 1..Len(fields) : fields[i].required /\ fields[i].name \notin given
             THEN Raise("TypeError")
             ELSE IF IsRaise(set) THEN set
             ELSE Dto(cls, Val(set))

\* cls(**d): the call binds the keyword arguments (a TypeError for a d that is
\* no mapping, for a key that is no field, for a missing field without
\* default), then __init__ sets the fields; the first exception ends the
\* construction
Construct(cls, d) ==
    IF IsRaise(d) THEN d
    ELSE IF Tag(d) # "dict" THEN Raise("TypeError")
    ELSE LET fields == Schema(cls)
             given == DictKeys(Val(d))
             names == {fields[i].name : i \in 1..Len(fields)}
             set == SetFields(fields, d, <<>>)
         IN  IF \E k \in given : k \notin names THEN Raise("TypeError")
             ELSE IF \E i \in 1..Len(fields) : fields[i].required /\ fields[i].name \notin given
             THEN Raise("TypeError")
             ELSE IF IsRaise(set) THEN set
             ELSE Dto(cls, Val(set))

-----------------------------------------------------------------------------
(* objects: attribute assignment and the conversions of DTO *)

\* the position of the field called name in the class, 0 when it has none
AttrIndex(cls, name) ==
    IF \E i \in 1..Len(Schema(cls)) : Schema(cls)[i].name = name
    THEN CHOOSE i \in 1..Len(Schema(cls)) : Schema(cls)[i].name = name
    ELSE 0

\* r.name = v on an instance of a class declared with @define (slots, not
\* frozen, the converter of the field run on assignment): the record after the
\* assignment, or the exception raised, which leaves the record as it was
setattr(r, name, v) ==
    LET i == AttrIndex(DtoClass(r), name)
        c == Coerce(Schema(DtoClass(r))[i], v)
    IN  IF i = 0 THEN Raise("AttributeError")
        ELSE IF IsRaise(c) THEN c
        ELSE Dto(DtoClass(r), [DtoFields(r) EXCEPT ![i] = <<name, c>>])

\* a tuple
PyTuple(xs) == <<"tuple", xs>>

RECURSIVE asdict(_)
\* attrs.asdict(v): an instance becomes the dict of its fields in declaration
\* order, the instances held in its fields and in their lists likewise
asdict(v) ==
    CASE Tag(v) = "dto" ->
            PyDict([i \in 1..Len(DtoFields(v)) |->
                       <<DtoFields(v)[i][1], asdict(DtoFields(v)[i][2])>>])
      [] Tag(v) = "list" -> PyList([i \in 1..Len(Val(v)) |-> asdict(Val(v)[i])])
      [] OTHER -> v

\* an astuple that leaves the instances held in the fields as they are
astuple_Shallow(v) ==
    CASE Tag(v) = "dto" ->
            PyTuple([i \in 1..Len(DtoFields(v)) |-> DtoFields(v)[i][2]])
      [] OTHER -> v

RECURSIVE astuple(_)
\* attrs.astuple(v): an instance becomes the tuple of its field values in
\* declaration order, the instances held in its fields and in their lists
\* likewise
astuple(v) ==
    CASE Tag(v) = "dto" ->
            PyTuple([i \in 1..Len(DtoFields(v)) |-> astuple(DtoFields(v)[i][2])])
      [] Tag(v) = "list" -> PyList([i \in 1..Len(Val(v)) |-> astuple(Val(v)[i])])
      [] OTHER -> v

\* DTO.to_dict, DTO.to_flat_dict, DTO.to_tuple
to_dict(r) == asdict(r)
to_flat_dict(r) == flat_dict(asdict(r), PyNone)
to_tuple(r) == astuple(r)

\* n in two, in four digits
Pad2(n) == IF n < 10 THEN "0" \o NatToStr(n) ELSE NatToStr(n)
Pad4(n) == SubSeq("000", 1, 4 - Len(NatToStr(n))) \o NatToStr(n)

\* date.isoformat(), time.isoformat() of a time of day in UTC
isoformat(v) ==
    IF Tag(v) = "date"
    THEN Pad4(Val(v)[1]) \o "-" \o Pad2(Val(v)[2]) \o "-" \o Pad2(Val(v)[3])
    ELSE Pad2(Val(v)[1]) \o ":" \o Pad2(Val(v)[2]) \o ":" \o Pad2(Val(v)[3]) \o "+00:00"

RECURSIVE StripZeros(_)
\* digits without its trailing zeros
StripZeros(digits) ==
    IF digits # "" /\ Chr(digits, Len(digits)) = "0"
    THEN StripZeros(SubSeq(digits, 1, Len(digits) - 1))
    ELSE digits

\* float.__repr__ of a float of at most three decimals
FloatRepr(millis) ==
    LET abs == IF millis < 0 THEN 0 - millis ELSE millis
        thousandths == NatToStr(abs % 1000)
        frac == StripZeros(SubSeq("00", 1, 3 - Len(thousandths)) \o thousandths)
    IN  (IF millis < 0 THEN "-" ELSE "") \o NatToStr(abs \div 1000) \o "."
        \o (IF frac = "" THEN "0" ELSE frac)

RECURSIVE JsonEscape(_)
\* the characters of a JSON string: the quote and the backslash escaped (the
\* strings here are printable ASCII)
JsonEscape(s) ==
    IF s = "" THEN ""
    ELSE (IF Chr(s, 1) = "\"" THEN "\\\""
          ELSE IF Chr(s, 1) = "\\" THEN "\\\\"
          ELSE Chr(s, 1)) \o JsonEscape(Tail(s))
JsonString(s) == "\"" \o JsonEscape(s) \o "\""

RECURSIVE JsonEncode(_), JsonItems(_, _)
\* JSONEncoder().encode(v): the values json knows are written with the default
\* separators; a date and a time go through default() to their isoformat(), a
\* DTO through default() to its to_dict()
JsonEncode(v) ==
    CASE Tag(v) = "none" -> "null"
      [] Tag(v) = "bool" -> IF Val(v) THEN "true" ELSE "false"
      [] Tag(v) = "int" -> IntToStr(Val(v))
      [] Tag(v) = "float" -> FloatRepr(Val(v))
      [] Tag(v) = "str" -> JsonString(Val(v))
      [] Tag(v) \in {"list", "tuple"} -> "[" \o JsonItems(Val(v), FALSE) \o "]"
      [] Tag(v) = "dict" -> "{" \o JsonItems(Val(v), TRUE) \o "}"
      [] Tag(v) \in {"date", "time"} -> JsonString(isoformat(v))
      [] Tag(v) = "dto" -> JsonEncode(to_dict(v))

\* the items of a list, or the key: value pairs of a dict, joined by ", "
JsonItems(xs, pairs) ==
    IF xs = <<>> THEN ""
    ELSE (IF pairs THEN JsonString(Head(xs)[1]) \o ": " \o JsonEncode(Head(xs)[2])
          ELSE JsonEncode(Head(xs)))
         \o (IF Len(xs) > 1 THEN ", " ELSE "") \o JsonItems(Tail(xs), pairs)

\* DTO.to_json
to_json(r) == PyStr(JsonEncode(r))

-----------------------------------------------------------------------------
(* Yuki: the getters *)

Getters ==
    {"get_drivers", "get_constructors", "get_circuits", "get_seasons", "get_races",
     "get_race_results", "get_qualifying_results", "get_sprint_results",
     "get_drivers_standings", "get_constructors_standings",
     "get_finishing_statuses", "get_lap_times", "get_pit_stops"}

\* an argument the caller leaves out
Omitted == <<"omitted", 0>>
Arg(given, default) == IF Tag(given) = "omitted" THEN default ELSE given

\* the defaults of year, race and lap in the signature of getter g
DefaultYear(g) ==
    IF g \in {"get_drivers", "get_constructors", "get_circuits", "get_finishing_statuses"}
    THEN PyNone ELSE PyStr("current")
DefaultRace(g) ==
    IF g \in {"get_race_results", "get_qualifying_results", "get_lap_times", "get_pit_stops"}
    THEN PyStr("last") ELSE PyNone
DefaultLap == PyInt(1)
DefaultWinners == PyBool(FALSE)

\* the url a standings getter requests: the winners url is assigned first when
\* winners is set, then the url of year and race is assigned in every case
StandingsUrl(year, race, winners, resource) ==
    LET first == IF Truthy(winners)
                 THEN build_url(<<PyStr(resource), PyStr("1")>>)
                 ELSE ""
        second == build_url(<<year, race, PyStr(resource)>>)
    IN  second

\* the url getter g requests
GetterUrl(g, year, race, lap, winners) ==
    CASE g = "get_drivers" -> build_url(<<year, race, PyStr("drivers")>>)
      [] g = "get_constructors" -> build_url(<<year, race, PyStr("constructors")>>)
      [] g = "get_circuits" -> build_url(<<year, race, PyStr("circuits")>>)
      [] g = "get_seasons" -> build_url(<<PyStr("seasons")>>)
      [] g = "get_races" -> build_url(<<year, race>>)
      [] g = "get_race_results" -> build_url(<<year, race, PyStr("results")>>)
      [] g = "get_qualifying_results" -> build_url(<<year, race, PyStr("qualifying")>>)
      [] g = "get_sprint_results" -> build_url(<<year, race, PyStr("sprint")>>)
      [] g = "get_drivers_standings" ->
            StandingsUrl(year, race, winners, "driverStandings")
      [] g = "get_constructors_standings" ->
            StandingsUrl(year, race, winners, "constructorStandings")
      [] g = "get_finishing_statuses" -> build_url(<<year, race, PyStr("status")>>)
      [] g = "get_lap_times" -> build_url(<<year, race, PyStr("laps"), lap>>)
      [] g = "get_pit_stops" -> build_url(<<year, race, PyStr("pitstops")>>)

\* the subscripts getter g applies to the parsed body
GetterPath(g) ==
    CASE g = "get_drivers" -> <<PyStr("MRData"), PyStr("DriverTable"), PyStr("Drivers")>>
      [] g = "get_constructors" ->
            <<PyStr("MRData"), PyStr("ConstructorTable"), PyStr("Constructors")>>
      [] g = "get_circuits" -> <<PyStr("MRData"), PyStr("CircuitTable"), PyStr("Circuits")>>
      [] g = "get_seasons" -> <<PyStr("MRData"), PyStr("SeasonTable"), PyStr("Seasons")>>
      [] g = "get_races" -> <<PyStr("MRData"), PyStr("RaceTable"), PyStr("Races")>>
      [] g = "get_race_results" ->
            <<PyStr("MRData"), PyStr("RaceTable"), PyStr("Races"), PyInt(0), PyStr("Results")>>
      [] g = "get_qualifying_results" ->
            <<PyStr("MRData"), PyStr("RaceTable"), PyStr("Races"), PyInt(0),
              PyStr("QualifyingResults")>>
      [] g = "get_sprint_results" ->
            <<PyStr("MRData"), PyStr("RaceTable"), PyStr("Races"), PyInt(0),
              PyStr("SprintResults")>>
      [] g = "get_drivers_standings" ->
            <<PyStr("MRData"), PyStr("StandingsTable"), PyStr("StandingsLists"), PyInt(0),
              PyStr("DriverStandings")>>
      [] g = "get_constructors_standings" ->
            <<PyStr("MRData"), PyStr("StandingsTable"), PyStr("StandingsLists"), PyInt(0),
              PyStr("ConstructorStandings")>>
      [] g = "get_finishing_statuses" ->
            <<PyStr("MRData"), PyStr("StatusTable"), PyStr("Status")>>
      [] g = "get_lap_times" ->
            <<PyStr("MRData"), PyStr("RaceTable"), PyStr("Races"), PyInt(0), PyStr("Laps")>>
      [] g = "get_pit_stops" ->
            <<PyStr("MRData"), PyStr("RaceTable"), PyStr("Races"), PyInt(0), PyStr("PitStops")>>

\* the class getter g builds its records of
GetterClass(g) ==
    CASE g = "get_drivers" -> "DriverDTO"
      [] g = "get_constructors" -> "ConstructorDTO"
      [] g = "get_circuits" -> "CircuitDTO"
      [] g = "get_seasons" -> "SeasonDTO"
      [] g = "get_races" -> "RaceDTO"
      [] g = "get_race_results" -> "RaceResultDTO"
      [] g = "get_qualifying_results" -> "QualifyingResultDTO"
      [] g = "get_sprint_results" -> "SprintResultDTO"
      [] g = "get_drivers_standings" -> "DriverStandingDTO"
      [] g = "get_constructors_standings" -> "ConstructorStandingDTO"
      [] g = "get_finishing_statuses" -> "StatusDTO"
      [] g = "get_lap_times" -> "LapDTO"
      [] g = "get_pit_stops" -> "PitStopDTO"

\* x[k] for a string or an int k
GetItem(x, k) ==
    CASE IsRaise(x) -> x
      [] Tag(x) = "dict" ->
            IF Tag(k) = "str" /\ Val(k) \in DictKeys(Val(x))
            THEN DictLookup(Val(x), Val(k))
            ELSE Raise("KeyError")
      [] Tag(x) = "list" ->
            IF Tag(k) # "int" THEN Raise("TypeError")
            ELSE IF Val(k) >= 0 /\ Val(k) < Len(Val(x)) THEN Val(x)[Val(k) + 1]
            ELSE Raise("IndexError")
      [] Tag(x) = "str" ->
            IF Tag(k) # "int" THEN Raise("TypeError")
            ELSE IF Val(k) >= 0 /\ Val(k) < Len(Val(x)) THEN PyStr(Chr(Val(x), Val(k) + 1))
            ELSE Raise("IndexError")
      [] OTHER -> Raise("TypeError")

RECURSIVE Walk(_, _)
\* x[path[1]][path[2]]...
Walk(x, path) ==
    IF path = <<>> THEN x ELSE Walk(GetItem(x, Head(path)), Tail(path))

\* the session objects get_races flattens into the race
SessionKeys ==
    PyList(<<"FirstPractice", "SecondPractice", "ThirdPractice", "Qualifying", "Sprint">>)

\* the record getter g builds of the item x
ItemRecord(g, x) ==
    IF g = "get_races"
    THEN IF Tag(x) # "dict" THEN Raise("AttributeError")
         ELSE Construct("RaceDTO", flat_dict(x, SessionKeys))
    ELSE Construct(GetterClass(g), x)

RECURSIVE ListComp_SkipsFailures(_, _)
\* a comprehension that leaves out the items no record can be built of
ListComp_SkipsFailures(g, xs) ==
    IF xs = <<>> THEN PyList(<<>>)
    ELSE LET here == ItemRecord(g, Head(xs))
             rest == ListComp_SkipsFailures(g, Tail(xs))
         IN  IF IsRaise(here) THEN rest
             ELSE PyList(<<here>> \o Val(rest))

RECURSIVE ListComp(_, _)
\* [XDTO(**x) for x in xs]: the records in the order of the items; the first
\* failing construction ends the comprehension
ListComp(g, xs) ==
    IF xs = <<>> THEN PyList(<<>>)
    ELSE LET here == ItemRecord(g, Head(xs))
             rest == ListComp(g, Tail(xs))
         IN  IF IsRaise(here) THEN here
             ELSE IF IsRaise(rest) THEN rest
             ELSE PyList(<<here>> \o Val(rest))

\* what getter g returns or raises, given what _make_request returned or raised
GetterResult(g, response) ==
    LET items == Iterate(Walk(response, GetterPath(g)))
    IN  IF IsRaise(response) THEN response
        ELSE IF IsRaise(items) THEN items
        ELSE ListComp(g, Val(items))

\* self.get_...(year, race, lap, winners) when the network would answer net;
\* the arguments a getter does not take are ignored
getter(self, g, year, race, lap, winners, net) ==
    LET url == GetterUrl(g, Arg(year, DefaultYear(g)), Arg(race, DefaultRace(g)),
                         Arg(lap, DefaultLap), Arg(winners, DefaultWinners))
        done == make_request(self, url, net)
    IN  [store |-> done.store, url |-> url, sent |-> done.sent, out |-> done.out,
         result |-> GetterResult(g, done.result)]

-----------------------------------------------------------------------------
(* The state no operation has touched yet *)

\* last is <<operation, what it was given and how it ended>>
NoCall == <<"none", [x |-> 0]>>
LastOp == last[1]
Last == last[2]

EmptyStore == [f \in CacheFiles |-> {}]

ClientIdle ==
    /\ Cache_session = PyNone
    /\ Cache_path = ""
    /\ store = EmptyStore
    /\ opened = {}
    /\ clients = <<>>
    /\ ncalls = 0

ClientUnchanged == UNCHANGED <<Cache_session, Cache_path, store, opened, clients, ncalls>>

-----------------------------------------------------------------------------
(* Spec: clients are constructed, the cache is configured, requests are made *)

\* the number of calls of a behaviour, the number of Yuki instances
MaxCalls == 3
MaxClients == 2

\* the configurations given, each <<cache directory, headers, expires_after>>:
\* two existing directories (one written with a trailing "/"), one of them with
\* two header dicts and expiries, and a directory that does not exist
Configs ==
    {<<"d1", "Yukinator", PyInt(3600)>>,
     <<"d1", "Other", PyInt(60)>>,
     <<"d2/", "Other", PyInt(3600)>>,
     <<"nodir", "Yukinator", PyInt(3600)>>}
Urls == {build_url(<<PyInt(2022), PyInt(4), PyStr("drivers")>>),
         build_url(<<PyStr("seasons")>>)}

\* a response envelope whose MRData holds the total given
Envelope(total) == PyDict(<< <<"MRData", PyDict(<< <<"total", total>> >>)>> >>)

\* what the server may answer, or the transport raise, to a GET
NetOutcomes ==
    {Got(Response(200, Envelope(PyStr("2")))),
     Got(Response(200, Envelope(PyStr("0")))),
     Got(Response(203, Envelope(PyStr("-1")))),
     Got(Response(404, Envelope(PyStr("2")))),
     Got(Response(500, Envelope(PyStr("0")))),
     Raise("ConnectionError")}

Init ==
    /\ ClientIdle
    /\ inp = <<>>
    /\ last = NoCall

\* Cache.cache_enable(path, headers, expires_after, clear), called directly
CacheEnableCall ==
    \E cfg \in Configs, clear \in BOOLEAN :
        LET path == cfg[1]
            headers == cfg[2]
            expires_after == cfg[3]
            done == cache_enable(path, headers, expires_after, PyBool(clear))
        IN  /\ ncalls < MaxCalls
            /\ ncalls' = ncalls + 1
            /\ Cache_path' = done.path
            /\ Cache_session' = done.session
            /\ store' = done.store
            /\ opened' = done.opened
            /\ last' = <<"cache_enable",
                         [path |-> path, headers |-> headers, expires_after |-> expires_after,
                          clear |-> clear, result |-> done.result]>>
            /\ UNCHANGED <<clients, inp>>

\* Yuki(headers, cache_enabled, cache_dir, expires_after, force_clear): the
\* instance exists only when __init__ returns
NewClient ==
    \E cfg \in Configs, cache_enabled \in BOOLEAN, clear \in BOOLEAN :
        LET self == Yuki(cfg[2], cache_enabled, PyStr(cfg[1]), cfg[3], PyBool(clear))
            done == IF self.cache_enabled
                    THEN cache_enable(Val(self.cache_dir), self.headers,
                                      self.expires_after, self.force_clear)
                    ELSE [path |-> Cache_path, session |-> Cache_session, store |-> store,
                          opened |-> opened, result |-> PyNone]
        IN  /\ ncalls < MaxCalls
            /\ Len(clients) < MaxClients
            /\ ncalls' = ncalls + 1
            /\ Cache_path' = done.path
            /\ Cache_session' = done.session
            /\ store' = done.store
            /\ opened' = done.opened
            /\ clients' = IF IsRaise(done.result) THEN clients ELSE Append(clients, self)
            /\ last' = <<"Yuki", [self |-> self, result |-> done.result]>>
            /\ UNCHANGED inp

\* Cache.cache_get(url), called directly
CacheGetCall ==
    \E url \in Urls, net \in NetOutcomes :
        LET done == cache_get(url, net)
        IN  /\ ncalls < MaxCalls
            /\ ncalls' = ncalls + 1
            /\ store' = done.store
            /\ last' = <<"cache_get", [url |-> url, sent |-> done.sent, out |-> done.out,
                                       entry |-> done.entry]>>
            /\ UNCHANGED <<Cache_session, Cache_path, opened, clients, inp>>

\* clients[i]._make_request(url)
MakeRequestCall ==
    \E i \in 1..Len(clients), url \in Urls, net \in NetOutcomes :
        LET done == make_request(clients[i], url, net)
        IN  /\ ncalls < MaxCalls
            /\ ncalls' = ncalls + 1
            /\ store' = done.store
            /\ last' = <<"_make_request",
                         [self |-> clients[i], url |-> url, sent |-> done.sent,
                          out |-> done.out, entry |-> done.entry, result |-> done.result]>>
            /\ UNCHANGED <<Cache_session, Cache_path, opened, clients, inp>>

\* time passes: a stored response gets older than its expire_after
Expire ==
    \E f \in CacheFiles :
        \E e \in store[f] :
            /\ e.fresh
            /\ store' = [store EXCEPT ![f] = (@ \ {e}) \cup {[e EXCEPT !.fresh = FALSE]}]
            /\ last' = <<"expire", [file |-> f, url |-> e.url]>>
            /\ UNCHANGED <<Cache_session, Cache_path, opened, clients, ncalls, inp>>

Next ==
    \/ CacheEnableCall
    \/ NewClient
    \/ CacheGetCall
    \/ MakeRequestCall
    \/ Expire

Spec == Init /\ [][Next]_vars

-----------------------------------------------------------------------------
(* Claims about _make_request *)

\* the response _make_request got, when it got one
LastRequest == LastOp = "_make_request"
LastGotResponse == LastRequest /\ ~IsRaise(Last.out)
LastResponse == Val(Last.out)

\* the total the envelope of response r declares
HasTotal(r) ==
    /\ r.body # NotJson
    /\ Tag(r.body) = "dict"
    /\ "MRData" \in DictKeys(Val(r.body))
    /\ Tag(DictLookup(Val(r.body), "MRData")) = "dict"
    /\ "total" \in DictKeys(Val(DictLookup(Val(r.body), "MRData")))
    /\ ~IsRaise(py_int(DictLookup(Val(DictLookup(Val(r.body), "MRData")), "total")))
TotalOf(r) == Val(py_int(DictLookup(Val(DictLookup(Val(r.body), "MRData")), "total")))

\* C1: _make_request, caching enabled or not: a response with a status below
\* 400 whose envelope declares a total <= 0 makes the call fail with
\* WrongQueryParameters; with a total > 0 the call returns the parsed body.
C1_TotalDecides ==
    (LastGotResponse /\ LastResponse.status < 400 /\ HasTotal(LastResponse)) =>
        IF TotalOf(LastResponse) <= 0
        THEN Last.result = Raise("WrongQueryParameters")
        ELSE Last.result = LastResponse.body

\* a caching client was answered from the cache with an envelope of total 0
C1_Witness ==
    /\ LastGotResponse
    /\ Last.self.cache_enabled
    /\ LastResponse.from_cache
    /\ LastResponse.status < 400
    /\ HasTotal(LastResponse)
    /\ TotalOf(LastResponse) <= 0
    /\ Last.result = Raise("WrongQueryParameters")

\* C2: _make_request, on the cache path and on the direct path: a response with
\* a status >= 400 makes the call fail with an HTTPError carrying that status
\* (so the body is not parsed, WrongQueryParameters is not raised and nothing
\* is returned).
C2_ErrorStatusRaises ==
    (LastGotResponse /\ LastResponse.status >= 400) =>
        Last.result = RaiseHTTPError(LastResponse.status)

\* a caching client got an error status with a body that declares a total of 0
C2_Witness ==
    /\ LastGotResponse
    /\ Last.self.cache_enabled
    /\ LastResponse.status >= 400
    /\ HasTotal(LastResponse)
    /\ TotalOf(LastResponse) <= 0
    /\ Last.result = RaiseHTTPError(LastResponse.status)

-----------------------------------------------------------------------------
(* Claims about the cache *)

\* the step is a call of Cache.cache_enable, direct or from Yuki.__init__
EnableStep ==
    /\ ncalls' = ncalls + 1
    /\ \/ LastOp' = "cache_enable"
       \/ LastOp' = "Yuki" /\ Last'.self.cache_enabled
EnablePath == IF LastOp' = "cache_enable" THEN Last'.path ELSE Val(Last'.self.cache_dir)
EnableClear == IF LastOp' = "cache_enable" THEN Last'.clear ELSE Val(Last'.self.force_clear)

\* C6: cache_enable (and so the construction of a caching client) given a
\* directory that does not exist fails with WrongDirectory, and no cache file
\* is opened, created or cleared by the call (no client instance either).
C6_WrongDirectoryFirst ==
    [][(EnableStep /\ ~(NormPath(EnablePath) \in ExistingDirs)) =>
            /\ Last'.result = Raise("WrongDirectory")
            /\ UNCHANGED <<store, opened, Cache_session, clients>>]_vars

\* a clearing cache_enable failed while a session was open on a filled cache
C6_Witness ==
    /\ LastOp = "cache_enable"
    /\ Last.clear
    /\ Last.result = Raise("WrongDirectory")
    /\ Cache_session # PyNone
    /\ store[Val(Cache_session).cache_name] # {}

\* the step is a call of Cache.cache_get
GetStep == ncalls' = ncalls + 1 /\ LastOp' = "cache_get"
FromCache(out) == ~IsRaise(out) /\ Val(out).from_cache
LiveAnswer(rec) == rec.sent /\ ~FromCache(rec.out)

\* C7 as stated: after cache_enable(.., clear=True) the first cache_get(u) is
\* answered by a live GET, and a cache_get(u) that follows it within the
\* time-to-live is answered from the cache without a new request.
C7_SecondFromCache ==
    [][/\ (EnableStep /\ EnableClear /\ ~IsRaise(Last'.result)) =>
              store'[Val(Cache_session').cache_name] = {}
       /\ (GetStep /\ Cache_session # PyNone
                   /\ Cached(Val(Cache_session).cache_name, Last'.url) = {}) =>
              LiveAnswer(Last')
       /\ (LastOp = "cache_get" /\ Last.entry = "none" /\ LiveAnswer(Last)
              /\ ~IsRaise(Last.out)
              /\ GetStep /\ Last'.url = Last.url) =>
              (~Last'.sent /\ FromCache(Last'.out))]_vars

\* C7 amended: the first cache_get(u) is answered by a live GET; when that GET
\* returned a response with status 200, the only status the session stores, a
\* cache_get(u) that follows within the time-to-live is answered from the
\* cache, with the stored status and body, without a new request.
C7_SecondFromCacheIfStored ==
    [][/\ (EnableStep /\ EnableClear /\ ~IsRaise(Last'.result)) =>
              store'[Val(Cache_session').cache_name] = {}
       /\ (GetStep /\ Cache_session # PyNone
                   /\ Cached(Val(Cache_session).cache_name, Last'.url) = {}) =>
              LiveAnswer(Last')
       /\ (LastOp = "cache_get" /\ Last.entry = "none" /\ LiveAnswer(Last)
              /\ ~IsRaise(Last.out) /\ Val(Last.out).status = 200
              /\ GetStep /\ Last'.url = Last.url) =>
              /\ ~Last'.sent
              /\ Last'.out = Got([Val(Last.out) EXCEPT !.from_cache = TRUE])
       /\ (GetStep /\ Cache_session # PyNone
                   /\ \E e \in Cached(Val(Cache_session).cache_name, Last'.url) : e.fresh) =>
              (~Last'.sent /\ FromCache(Last'.out))]_vars

\* a cache_get was answered from the cache without a request
C7_Witness ==
    /\ LastOp = "cache_get"
    /\ ~Last.sent
    /\ FromCache(Last.out)
    /\ Last.entry = "fresh"

-----------------------------------------------------------------------------
(* Claims about the cache configuration as class state *)

EnableHeaders == IF LastOp' = "cache_enable" THEN Last'.headers ELSE Last'.self.headers
EnableExpiry ==
    IF LastOp' = "cache_enable" THEN Last'.expires_after ELSE Last'.self.expires_after

\* the step is a request through the cache: Cache.cache_get called directly,
\* or _make_request of a caching client
CachedRequestStep ==
    /\ ncalls' = ncalls + 1
    /\ \/ LastOp' = "cache_get"
       \/ LastOp' = "_make_request" /\ Last'.self.cache_enabled

\* the step's request is served by session s: the entry it finds, returns and
\* stores is that of the cache file of s, and no other cache file changes
ServedBy(s) ==
    /\ \A f \in CacheFiles \ {s.cache_name} : store'[f] = store[f]
    /\ Last'.entry = "none" <=> Cached(s.cache_name, Last'.url) = {}
    /\ Last'.entry = "fresh" <=> \E e \in Cached(s.cache_name, Last'.url) : e.fresh
    /\ FromCache(Last'.out) =>
          \E e \in Cached(s.cache_name, Last'.url) :
              Last'.out = Got([e.resp EXCEPT !.from_cache = TRUE])
    /\ (Last'.sent /\ ~IsRaise(Last'.out) /\ ~FromCache(Last'.out)
            /\ Val(Last'.out).status = 200) =>
          \E e \in store'[s.cache_name] :
              e.url = Last'.url /\ e.resp = Val(Last'.out) /\ e.fresh

\* C15: the cache configuration is one process-wide state: after any sequence
\* of cache_enable calls (made directly or by constructing caching clients),
\* the configured session is the one opened by the most recent successful
\* cache_enable, with that call's directory, headers and expiry, and every
\* cache_get, from whichever client instance, is served by it.
C15_OneSharedSession ==
    [][/\ IF EnableStep /\ ~IsRaise(Last'.result)
          THEN Cache_session' = Session(NormPath(PathJoin(EnablePath, "yuki_cache")),
                                        EnableHeaders, EnableExpiry)
          ELSE Cache_session' = Cache_session
       /\ (CachedRequestStep /\ Cache_session # PyNone) => ServedBy(Val(Cache_session))]_vars

\* a client constructed on d1 made a request that was stored in the cache file
\* of d2, which a client constructed later had configured
C15_Witness ==
    /\ LastOp = "_make_request"
    /\ Last.self.cache_enabled
    /\ NormPath(Val(Last.self.cache_dir)) = "d1"
    /\ Cache_session = Session("d2/yuki_cache", "Other", PyInt(3600))
    /\ Len(clients) = 2
    /\ clients[1] = Last.self
    /\ NormPath(Val(clients[2].cache_dir)) = "d2"
    /\ Last.sent
    /\ store["d1/yuki_cache"] = {}
    /\ \E e \in store["d2/yuki_cache"] : e.url = Last.url /\ Got(e.resp) = Last.out

\* C16: the configuration of a client instance is set once at construction
\* and immutable thereafter: whether its requests go through the cache, and
\* with which cache directory, headers and expiry they are served, is the same
\* for every request of the instance's lifetime, whatever other client
\* instances are constructed in between: a request of a caching client is
\* served by a session on the client's own cache directory, with its own
\* headers and expiry.
C16_OwnConfiguration ==
    (LastOp = "_make_request" /\ Last.self.cache_enabled) =>
        Cache_session = Session(NormPath(PathJoin(Val(Last.self.cache_dir), "yuki_cache")),
                                Last.self.headers, Last.self.expires_after)

\* C19: after any sequence of client constructions (cache enabled or disabled,
\* succeeding or failing with WrongDirectory), every client instance that
\* exists with cache_enabled = True finds a configured session, so its
\* _make_request never fails for lack of a session; a failed cache_enable
\* leaves the previously configured session in place.
C19_SessionStaysConfigured ==
    [][/\ \A i \in 1..Len(clients') :
              clients'[i].cache_enabled => Cache_session' # PyNone
       /\ (LastOp' = "_make_request" /\ ncalls' = ncalls + 1 /\ Last'.self.cache_enabled) =>
              /\ Last'.out # Raise("AttributeError")
              /\ Last'.result # Raise("AttributeError")
       /\ (EnableStep /\ IsRaise(Last'.result)) =>
              /\ Last'.result = Raise("WrongDirectory")
              /\ Cache_session' = Cache_session]_vars

\* a caching client made a request through the session it had configured,
\* after the construction of another caching client had failed
C19_Witness ==
    /\ LastOp = "_make_request"
    /\ Last.self.cache_enabled
    /\ Len(clients) = 1
    /\ ncalls = 3
    /\ Cache_path = "nodir"
    /\ Cache_session = Session("d1/yuki_cache", Last.self.headers, Last.self.expires_after)
    /\ Last.sent
    /\ ~IsRaise(Last.out)

-----------------------------------------------------------------------------
(* SpecUrl: _build_url applied to every argument list within the bounds *)

MaxSegs == 3

\* the endpoint suffixes: None, strings (the empty one too) and ints (0 too)
SegValues ==
    {PyNone, PyStr(""), PyStr("drivers"), PyStr("current"), PyInt(2022), PyInt(4), PyInt(0)}

RECURSIVE SeqsUpTo(_, _)
\* the sequences over S of length at most n
SeqsUpTo(S, n) ==
    IF n = 0 THEN {<<>>}
    ELSE LET shorter == SeqsUpTo(S, n - 1)
         IN  shorter \cup {Append(q, x) : q \in {r \in shorter : Len(r) = n - 1}, x \in S}

InitUrl ==
    /\ ClientIdle
    /\ inp \in SeqsUpTo(SegValues, MaxSegs)
    /\ last = NoCall

BuildUrlCall ==
    /\ last = NoCall
    /\ last' = <<"_build_url", [args |-> inp, result |-> build_url(inp)]>>
    /\ UNCHANGED inp
    /\ ClientUnchanged

NextUrl == BuildUrlCall

SpecUrl == InitUrl /\ [][NextUrl]_vars

RECURSIVE NonNullNonEmpty(_)
\* the segments that are neither None nor the empty string, as text, in order
NonNullNonEmpty(segs) ==
    IF segs = <<>> THEN <<>>
    ELSE LET x == Head(segs)
         IN  IF Tag(x) = "none" \/ (Tag(x) = "str" /\ Val(x) = "")
             THEN NonNullNonEmpty(Tail(segs))
             ELSE <<IF Tag(x) = "int" THEN IntToStr(Val(x)) ELSE Val(x)>> \o NonNullNonEmpty(Tail(segs))

\* C4: _build_url(s1..sn) is the base path, then every segment that is neither
\* None nor the empty string, as text, in order and joined by "/", then
\* ".json?limit=1000".
C4_AllNonNullSegmentsKept ==
    LastOp = "_build_url" =>
        Last.result = "https://api.jolpi.ca/ergast/f1/"
                        \o StrJoin("/", NonNullNonEmpty(Last.args))
                        \o ".json?limit=1000"

-----------------------------------------------------------------------------
(* SpecFlat: flat_dict applied to every nested mapping within the bounds *)

\* the total number of entries, at all levels, of an input mapping
MaxEntries == 3

\* keys with upper-case letters in first and later positions, the empty key,
\* and keys that synthesize the same name ("a" + "B" and "aB")
FlatKeys == {"a", "B", "aB", ""}
FlatScalars == {PyInt(1), PyInt(2)}
FlatRestrictions == {PyNone, PyList(<<>>), PyList(<<"a">>)}

\* the item lists that put one more entry, with a value among values, in front
\* of an item list of rests that does not hold its key
WithFirstEntry(values, rests) ==
    UNION {{<< <<k, v>> >> \o rest : v \in values, rest \in {r \in rests : k \notin DictKeys(r)}}
           : k \in FlatKeys}

RECURSIVE DictsOfNextSize(_, _)
\* t[j + 1] being the item lists of the dicts of exactly j entries (nested ones
\* counted), those of Len(t) entries whose first entry counts for at most m
DictsOfNextSize(t, m) ==
    IF m = 0 THEN {}
    ELSE WithFirstEntry(IF m = 1 THEN FlatScalars \cup {PyDict(<<>>)}
                                 ELSE {PyDict(c) : c \in t[m]},
                        t[Len(t) - m + 1])
            \cup DictsOfNextSize(t, m - 1)

RECURSIVE DictsBySize(_, _)
DictsBySize(t, n) ==
    IF Len(t) > n THEN t ELSE DictsBySize(Append(t, DictsOfNextSize(t, Len(t))), n)

RECURSIVE UnionOfAll(_)
UnionOfAll(t) == IF t = <<>> THEN {} ELSE Head(t) \cup UnionOfAll(Tail(t))

\* the item lists of the dicts of at most n entries
FlatInputs(n) == UnionOfAll(DictsBySize(<< {<<>>} >>, n))

InitFlat ==
    /\ ClientIdle
    /\ inp \in {<<PyDict(d), K>> : d \in FlatInputs(MaxEntries), K \in FlatRestrictions}
    /\ last = NoCall

FlatDictCall ==
    /\ last = NoCall
    /\ last' = <<"flat_dict", [d |-> inp[1], keys |-> inp[2],
                               result |-> flat_dict(inp[1], inp[2])]>>
    /\ UNCHANGED inp
    /\ ClientUnchanged

\* flat_dict(flat_dict(d, keys), keys): the result of the call is flattened
\* again
FlatAgainCall ==
    /\ LastOp = "flat_dict"
    /\ last' = <<"flat_dict_again", [d |-> Last.d, keys |-> Last.keys, first |-> Last.result,
                                     result |-> flat_dict(Last.result, Last.keys)]>>
    /\ UNCHANGED inp
    /\ ClientUnchanged

RECURSIVE Reordered(_, _)
\* the dict x with its items in reverse insertion order, at the top level only
\* or (deep) at every level
Reordered(x, deep) ==
    IF Tag(x) # "dict" THEN x
    ELSE PyDict([i \in 1..Len(Val(x)) |->
                    LET item == Val(x)[Len(Val(x)) + 1 - i]
                    IN  <<item[1], IF deep THEN Reordered(item[2], deep) ELSE item[2]>>])

\* flat_dict(d2, keys) for a dict d2 that holds the entries of d in another
\* insertion order, after flat_dict(d, keys)
FlatReorderedCall ==
    /\ LastOp = "flat_dict"
    /\ \E deep \in BOOLEAN :
          \E other \in {Reordered(Last.d, deep)} :
              last' = <<"flat_dict_reordered",
                        [d |-> Last.d, other |-> other, keys |-> Last.keys,
                         result |-> Last.result,
                         other_result |-> flat_dict(other, Last.keys)]>>
    /\ UNCHANGED inp
    /\ ClientUnchanged

NextFlat == FlatDictCall \/ FlatAgainCall \/ FlatReorderedCall

SpecFlat == InitFlat /\ [][NextFlat]_vars

\* the restriction set of a call: the keys listed, none when keys is None or []
RestrictionSet(keys) ==
    IF Tag(keys) = "list" THEN {Val(keys)[i] : i \in 1..Len(Val(keys))} ELSE {}

\* an entry is to be descended into when it holds a mapping and either there is
\* no restriction or its own key is in the restriction set
ToDescend(k, v, K) == Tag(v) = "dict" /\ (K # {} => k \in K)

RECURSIVE PassedThrough(_, _, _)
\* the entries that are not descended into, each as <<path of keys, value>>
PassedThrough(items, path, K) ==
    UNION {
        LET k == items[i][1]
            v == items[i][2]
        IN  IF ToDescend(k, v, K)
            THEN PassedThrough(Val(v), Append(path, k), K)
            ELSE {<<Append(path, k), v>>}
        : i \in 1..Len(items)}

RECURSIVE FirstCharKey(_)
\* the key of a path when only the first characters change case
FirstCharKey(path) ==
    IF Len(path) = 1 THEN path[1]
    ELSE LowerFirst(FirstCharKey(SubSeq(path, 1, Len(path) - 1))) \o UpperFirst(path[Len(path)])

RECURSIVE WholeCaseKey(_)
\* the key of a path when the parent key is lower-cased throughout and the
\* child key is capitalized (first character upper, the others lower); under
\* an empty parent key the child key is kept
WholeCaseKey(path) ==
    IF Len(path) = 1 THEN path[1]
    ELSE LET parent == WholeCaseKey(SubSeq(path, 1, Len(path) - 1))
             child == path[Len(path)]
         IN  IF parent = "" THEN child
             ELSE StrLower(parent) \o UpperFirst(StrLower(child))

LastFlat == LastOp = "flat_dict"
LastPassed == PassedThrough(Val(Last.d), <<>>, RestrictionSet(Last.keys))

\* C8 as stated: the key of an entry of a flattened nested mapping is the
\* parent key with its first character lower-cased followed by the child key
\* with its first character upper-cased, every other character kept.
C8_FirstCharacterOnly ==
    LastFlat => DictKeys(Val(Last.result)) = {FirstCharKey(e[1]) : e \in LastPassed}

\* C8 amended: the key is the parent key lower-cased throughout followed by the
\* child key capitalized (first character upper-cased, the others lower-cased);
\* top-level keys, and keys under an empty parent key, are kept unchanged.
C8_WholeKeyCase ==
    LastFlat => DictKeys(Val(Last.result)) = {WholeCaseKey(e[1]) : e \in LastPassed}

C8_Witness ==
    /\ LastFlat
    /\ \E e \in LastPassed :
          /\ Len(e[1]) >= 2
          /\ WholeCaseKey(e[1]) # FirstCharKey(e[1])
          /\ WholeCaseKey(e[1]) \in DictKeys(Val(Last.result))

\* C9: with a non-empty restriction set K, a mapping-valued entry is descended
\* into iff its own key is in K, at every depth; every other entry (a mapping
\* whose key is not in K, a non-mapping value) appears in the output with its
\* value unchanged, and the output holds nothing else.
C9_PassThroughAppears ==
    (LastFlat /\ RestrictionSet(Last.keys) # {}) =>
        LET out == {Val(Last.result)[i] : i \in 1..Len(Val(Last.result))}
        IN  out = {<<WholeCaseKey(e[1]), e[2]>> : e \in LastPassed}

\* C14: flat_dict with no restriction is idempotent: for every nested mapping
\* d, flat_dict(flat_dict(d)) equals flat_dict(d).
C14_Idempotent ==
    (LastOp = "flat_dict_again" /\ RestrictionSet(Last.keys) = {}) =>
        Last.result = Last.first

\* a mapping with a mapping nested two levels deep was flattened twice, the
\* first pass having changed it
C14_Witness ==
    /\ LastOp = "flat_dict_again"
    /\ RestrictionSet(Last.keys) = {}
    /\ \E i \in 1..Len(Val(Last.d)) :
          LET v == Val(Last.d)[i][2]
          IN  /\ Tag(v) = "dict"
              /\ \E j \in 1..Len(Val(v)) : Tag(Val(v)[j][2]) = "dict"
    /\ Last.first # Last.d
    /\ Last.result = Last.first

RECURSIVE Unordered(_)
\* a value without the insertion order of the dicts in it: dicts compare equal
\* when they hold the same key/value pairs
Unordered(x) ==
    IF Tag(x) = "dict"
    THEN <<"dict", {<<Val(x)[i][1], Unordered(Val(x)[i][2])>> : i \in 1..Len(Val(x))}>>
    ELSE x

\* the key/value pairs of a dict
PairsOf(x) == Unordered(x)[2]

\* C18: flat_dict does not depend on key insertion order: for two nested
\* mappings that hold the same keys and values at every level and differ only
\* in insertion order, flat_dict with the same restriction set returns
\* mappings with the same key/value pairs.
C18_OrderIndependent ==
    LastOp = "flat_dict_reordered" =>
        PairsOf(Last.other_result) = PairsOf(Last.result)

-----------------------------------------------------------------------------
(* SpecGet: one getter is called on a client, the server answers *)

\* the number of items of a resource array
MaxItems == 2

S(s) == PyStr(s)

\* items as the API returns them; n tells two items of a kind apart
RawDriver(n) ==
    IF n = 1
    THEN PyDict(<< <<"driverId", S("alonso")>>, <<"permanentNumber", S("14")>>,
                   <<"code", S("ALO")>>, <<"url", S("w/alonso")>>,
                   <<"givenName", S("Fernando")>>, <<"familyName", S("Alonso")>>,
                   <<"dateOfBirth", S("1981-07-29")>>, <<"nationality", S("Spanish")>> >>)
    ELSE PyDict(<< <<"driverId", S("fangio")>>, <<"url", S("w/fangio")>>,
                   <<"givenName", S("Juan")>>, <<"familyName", S("Fangio")>>,
                   <<"dateOfBirth", S("1911-06-24")>>, <<"nationality", S("Argentine")>> >>)
RawConstructor(n) ==
    IF n = 1
    THEN PyDict(<< <<"constructorId", S("alpine")>>, <<"url", S("w/alpine")>>,
                   <<"name", S("Alpine")>>, <<"nationality", S("French")>> >>)
    ELSE PyDict(<< <<"constructorId", S("ferrari")>>, <<"url", S("w/ferrari")>>,
                   <<"name", S("Ferrari")>>, <<"nationality", S("Italian")>> >>)
RawLocation(n) ==
    IF n = 1
    THEN PyDict(<< <<"lat", S("-37.85")>>, <<"long", S("144.968")>>,
                   <<"locality", S("Melbourne")>>, <<"country", S("Australia")>> >>)
    ELSE PyDict(<< <<"lat", S("26.033")>>, <<"long", S("50.511")>>,
                   <<"locality", S("Sakhir")>>, <<"country", S("Bahrain")>> >>)
RawCircuit(n) ==
    PyDict(<< <<"circuitId", S(IF n = 1 THEN "albert_park" ELSE "bahrain")>>,
              <<"url", S("w/circuit")>>,
              <<"circuitName", S(IF n = 1 THEN "Albert Park" ELSE "Bahrain")>>,
              <<"Location", RawLocation(n)>> >>)
RawSeason(n) ==
    PyDict(<< <<"season", S(IF n = 1 THEN "1950" ELSE "2022")>>, <<"url", S("w/season")>> >>)
RawSession(date, time) == PyDict(<< <<"date", S(date)>>, <<"time", S(time)>> >>)
RawRace(n) ==
    IF n = 1
    THEN PyDict(<< <<"season", S("2022")>>, <<"round", S("4")>>, <<"url", S("w/race")>>,
                   <<"raceName", S("Emilia Romagna Grand Prix")>>,
                   <<"Circuit", RawCircuit(1)>>,
                   <<"date", S("2022-04-24")>>, <<"time", S("13:00:00Z")>>,
                   <<"FirstPractice", RawSession("2022-04-22", "11:30:00Z")>>,
                   <<"Qualifying", RawSession("2022-04-22", "15:00:00Z")>>,
                   <<"SecondPractice", RawSession("2022-04-23", "10:30:00Z")>>,
                   <<"Sprint", RawSession("2022-04-23", "14:30:00Z")>> >>)
    ELSE PyDict(<< <<"season", S("1950")>>, <<"round", S("1")>>, <<"url", S("w/race")>>,
                   <<"raceName", S("British Grand Prix")>>,
                   <<"Circuit", RawCircuit(2)>>,
                   <<"date", S("1950-05-13")>> >>)
RawTime == PyDict(<< <<"millis", S("5853584")>>, <<"time", S("1:37:33.584")>> >>)
RawFastestLap ==
    PyDict(<< <<"rank", S("1")>>, <<"lap", S("51")>>,
              <<"Time", PyDict(<< <<"time", S("1:34.570")>> >>)>>,
              <<"AverageSpeed", PyDict(<< <<"units", S("kph")>>, <<"speed", S("206.018")>> >>)>> >>)
RawResult(n) ==
    IF n = 1
    THEN PyDict(<< <<"number", S("16")>>, <<"position", S("1")>>, <<"positionText", S("1")>>,
                   <<"points", S("26")>>, <<"Driver", RawDriver(1)>>,
                   <<"Constructor", RawConstructor(2)>>, <<"grid", S("1")>>,
                   <<"laps", S("57")>>, <<"status", S("Finished")>>,
                   <<"Time", RawTime>>, <<"FastestLap", RawFastestLap>> >>)
    ELSE PyDict(<< <<"number", S("14")>>, <<"position", S("9")>>, <<"positionText", S("9")>>,
                   <<"points", S("2.5")>>, <<"Driver", RawDriver(2)>>,
                   <<"Constructor", RawConstructor(1)>>, <<"grid", S("8")>>,
                   <<"laps", S("56")>>, <<"status", S("+1 Lap")>> >>)
RawQualifying(n) ==
    IF n = 1
    THEN PyDict(<< <<"number", S("16")>>, <<"position", S("1")>>, <<"Driver", RawDriver(1)>>,
                   <<"Constructor", RawConstructor(2)>>, <<"Q1", S("1:31.471")>>,
                   <<"Q2", S("1:30.932")>>, <<"Q3", S("1:30.558")>> >>)
    ELSE PyDict(<< <<"number", S("14")>>, <<"position", S("18")>>, <<"Driver", RawDriver(2)>>,
                   <<"Constructor", RawConstructor(1)>>, <<"Q1", S("1:32.338")>> >>)
RawDriverStanding(n) ==
    PyDict(<< <<"position", S(IF n = 1 THEN "1" ELSE "2")>>,
              <<"positionText", S(IF n = 1 THEN "1" ELSE "2")>>,
              <<"points", S(IF n = 1 THEN "454" ELSE "308.5")>>,
              <<"wins", S(IF n = 1 THEN "15" ELSE "3")>>,
              <<"Driver", RawDriver(n)>>,
              <<"Constructors", PyList(IF n = 1 THEN <<RawConstructor(1)>>
                                       ELSE <<RawConstructor(1), RawConstructor(2)>>)>> >>)
RawConstructorStanding(n) ==
    PyDict(<< <<"position", S(IF n = 1 THEN "1" ELSE "2")>>,
              <<"positionText", S(IF n = 1 THEN "1" ELSE "2")>>,
              <<"points", S(IF n = 1 THEN "759" ELSE "554")>>,
              <<"wins", S(IF n = 1 THEN "17" ELSE "4")>>,
              <<"Constructor", RawConstructor(n)>> >>)
RawStatus(n) ==
    PyDict(<< <<"statusId", S(IF n = 1 THEN "1" ELSE "11")>>,
              <<"count", S(IF n = 1 THEN "7008" ELSE "3820")>>,
              <<"status", S(IF n = 1 THEN "Finished" ELSE "+1 Lap")>> >>)
RawTiming(n) ==
    PyDict(<< <<"driverId", S(IF n = 1 THEN "alonso" ELSE "fangio")>>,
              <<"position", S(IF n = 1 THEN "1" ELSE "2")>>,
              <<"time", S(IF n = 1 THEN "1:40.236" ELSE "1:41.102")>> >>)
RawLap(n) ==
    PyDict(<< <<"number", S(IF n = 1 THEN "1" ELSE "2")>>,
              <<"Timings", PyList(IF n = 1 THEN <<RawTiming(1), RawTiming(2)>>
                                  ELSE <<RawTiming(2)>>)>> >>)
RawPitStop(n) ==
    PyDict(<< <<"driverId", S(IF n = 1 THEN "alonso" ELSE "fangio")>>,
              <<"lap", S(IF n = 1 THEN "11" ELSE "25")>>,
              <<"stop", S(IF n = 1 THEN "1" ELSE "2")>>,
              <<"time", S(IF n = 1 THEN "18:21:24" ELSE "18:46:03")>>,
              <<"duration", S(IF n = 1 THEN "25.365" ELSE "24.9")>> >>)

\* an item as the resource of getter g holds them
RawItem(g, n) ==
    CASE g = "get_drivers" -> RawDriver(n)
      [] g = "get_constructors" -> RawConstructor(n)
      [] g = "get_circuits" -> RawCircuit(n)
      [] g = "get_seasons" -> RawSeason(n)
      [] g = "get_races" -> RawRace(n)
      [] g \in {"get_race_results", "get_sprint_results"} -> RawResult(n)
      [] g = "get_qualifying_results" -> RawQualifying(n)
      [] g = "get_drivers_standings" -> RawDriverStanding(n)
      [] g = "get_constructors_standings" -> RawConstructorStanding(n)
      [] g = "get_finishing_statuses" -> RawStatus(n)
      [] g = "get_lap_times" -> RawLap(n)
      [] g = "get_pit_stops" -> RawPitStop(n)

\* the fields of the class that have a converter and that the item d gives
ConvertedFields(cls, d) ==
    {i \in 1..Len(Schema(cls)) :
        Schema(cls)[i].conv # "" /\ Schema(cls)[i].name \in DictKeys(Val(d))}

RECURSIVE Spoilt(_, _)
\* a value the converter of field f fails on: a number that is none, a date
\* and a time of day that do not exist, a nested item that builds no record
Spoilt(f, v) ==
    CASE f.conv \in {"int", "float"} -> S("n/a")
      [] f.conv = "to_date" -> S("2022-02-30")
      [] f.conv = "to_time" -> S("24:00:00Z")
      [] f.conv = "dto" ->
            LET inner == ConvertedFields(f.arg, v)
                i == CHOOSE i \in inner : \A j \in inner : i <= j
            IN  IF inner = {} THEN PyDict(<<>>)
                ELSE PyDict(DictSet(Val(v), Schema(f.arg)[i].name,
                                    Spoilt(Schema(f.arg)[i],
                                           DictLookup(Val(v), Schema(f.arg)[i].name))))
      [] f.conv = "dto_list" -> PyList(Val(v) \o <<PyDict(<<>>)>>)

\* the items of getter g's resource the server may send: two that build a
\* record, one for every converted field with a value the converter fails on,
\* for get_races one with a session whose date and one whose time fails and
\* one with a session object get_races does not flatten, one that lacks its
\* first key, and one that carries a key which is no field
ItemsOf(g) ==
    LET good == RawItem(g, 1)
        cls == GetterClass(g)
    IN  {good, RawItem(g, 2)}
        \cup {PyDict(DictSet(Val(good), Schema(cls)[i].name,
                             Spoilt(Schema(cls)[i], DictLookup(Val(good), Schema(cls)[i].name))))
              : i \in ConvertedFields(cls, good)}
        \cup (IF g = "get_races"
              THEN {PyDict(DictSet(Val(good), "FirstPractice", RawSession("2022-04-31", "11:30:00Z"))),
                    PyDict(DictSet(Val(good), "Sprint", RawSession("2022-04-23", "14:60:00Z"))),
                    PyDict(DictSet(Val(good), "SprintQualifying",
                                   RawSession("2022-04-22", "15:00:00Z")))}
              ELSE {})
        \cup {PyDict(Tail(Val(good))),
              PyDict(DictSet(Val(good), "wikipedia", S("w")))}

\* the sequences of at most n elements of set
ListsUpTo(set, n) == UNION {[1..k -> set] : k \in 0..n}

RECURSIVE WrapIn(_, _)
\* the value that holds inner under the subscripts of path
WrapIn(path, inner) ==
    IF path = <<>> THEN inner
    ELSE IF Tag(Head(path)) = "int" THEN PyList(<<WrapIn(Tail(path), inner)>>)
    ELSE PyDict(<< <<Val(Head(path)), WrapIn(Tail(path), inner)>> >>)

\* the body of a response to getter g: the envelope with the total given and
\* the resource array holding items
Body(g, total, items) ==
    LET table == GetterPath(g)[2]
    IN  PyDict(<< <<"MRData",
                    PyDict(<< <<"total", S(total)>>,
                              <<Val(table), WrapIn(SubSeq(GetterPath(g), 3, Len(GetterPath(g))),
                                                   PyList(items))>> >>)>> >>)

\* the body of a response to getter g whose table holds an empty list
EmptyTableBody(g) ==
    PyDict(<< <<"MRData",
                PyDict(<< <<"total", S("1")>>,
                          <<Val(GetterPath(g)[2]),
                            PyDict(<< <<Val(GetterPath(g)[3]), PyList(<<>>)>> >>)>> >>)>> >>)

\* what the server may answer to getter g: the resource array, of every
\* content, with its length as the total (an empty array also with a total of
\* 1), a table without a race or standings entry, an envelope without the
\* table, an error status, no answer
GetterNetOutcomes(g, n) ==
    {Got(Response(200, Body(g, IntToStr(Len(items)), items))) : items \in ListsUpTo(ItemsOf(g), n)}
    \cup {Got(Response(200, Body(g, "1", <<>>))),
          Got(Response(200, EmptyTableBody(g))),
          Got(Response(200, Envelope(S("1")))),
          Got(Response(404, Body(g, "1", <<RawItem(g, 1)>>))),
          Raise("ConnectionError")}

\* the arguments of a call, each <<year, race, lap, winners>>
GetterArgs(g) ==
    LET years == IF g = "get_seasons" THEN {Omitted} ELSE {Omitted, PyInt(2022)}
        races == IF g = "get_seasons" THEN {Omitted} ELSE {Omitted, PyInt(4)}
        laps == IF g = "get_lap_times" THEN {Omitted, PyInt(2)} ELSE {Omitted}
        flags == IF g \in {"get_drivers_standings", "get_constructors_standings"}
                 THEN {Omitted, PyBool(TRUE), PyBool(FALSE)} ELSE {Omitted}
    IN  years \X races \X laps \X flags
NoArgs == <<Omitted, Omitted, Omitted, Omitted>>

\* the calls: every getter with every argument list and an answer that holds
\* one item, and with no argument and every answer; each on a client without
\* and on a client with caching
GetterCalls(n) ==
    UNION {
        ({<<g>>} \X GetterArgs(g) \X {1, 2}
             \X {Got(Response(200, Body(g, "1", <<RawItem(g, 1)>>)))})
        \cup ({<<g>>} \X {NoArgs} \X {1, 2} \X GetterNetOutcomes(g, n))
        : g \in Getters}

\* two clients exist, the second one caching in the directory d1
InitGet ==
    /\ clients = <<Yuki("Yukinator", FALSE, PyStr("d1"), PyInt(3600), PyBool(FALSE)),
                   Yuki("Yukinator", TRUE, PyStr("d1"), PyInt(3600), PyBool(FALSE))>>
    /\ Cache_path = "d1"
    /\ Cache_session = Session("d1/yuki_cache", "Yukinator", PyInt(3600))
    /\ opened = {"d1/yuki_cache"}
    /\ store = EmptyStore
    /\ ncalls = 2
    /\ inp \in GetterCalls(MaxItems)
    /\ last = NoCall

\* clients[i].get_...(year, race, lap, winners)
GetterCall ==
    /\ LastOp = "none"
    /\ LET g == inp[1][1]
           args == inp[2]
           self == clients[inp[3]]
       IN  \E done \in {getter(self, g, args[1], args[2], args[3], args[4], inp[4])} :
               /\ store' = done.store
               /\ last' = <<"getter",
                            [name |-> g, self |-> self, year |-> args[1], race |-> args[2],
                             lap |-> args[3], winners |-> args[4], url |-> done.url,
                             sent |-> done.sent, out |-> done.out, result |-> done.result]>>
               /\ UNCHANGED <<Cache_session, Cache_path, opened, clients, ncalls, inp>>

NextGet == GetterCall

SpecGet == InitGet /\ [][NextGet]_vars

-----------------------------------------------------------------------------
(* Claims about the getters and the record classes *)

LastGetter == LastOp = "getter"
\* the body of the response the getter was given, and what it declares
LastAnswered == LastGetter /\ ~IsRaise(Last.out) /\ Val(Last.out).status < 400
LastBody == Val(Last.out).body
At(x, k) == DictLookup(Val(x), k)
Has(x, k) == Tag(x) = "dict" /\ k \in DictKeys(Val(x))
HasFirst(x) == Tag(x) = "list" /\ Val(x) # <<>>

\* the resource array of the envelope of getter g, for a body that has one
HasResource(g, body) ==
    /\ Has(body, "MRData")
    /\ LET data == At(body, "MRData")
       IN  CASE g = "get_drivers" ->
                   Has(data, "DriverTable") /\ Has(At(data, "DriverTable"), "Drivers")
             [] g = "get_constructors" ->
                   Has(data, "ConstructorTable")
                   /\ Has(At(data, "ConstructorTable"), "Constructors")
             [] g = "get_circuits" ->
                   Has(data, "CircuitTable") /\ Has(At(data, "CircuitTable"), "Circuits")
             [] g = "get_seasons" ->
                   Has(data, "SeasonTable") /\ Has(At(data, "SeasonTable"), "Seasons")
             [] g = "get_finishing_statuses" ->
                   Has(data, "StatusTable") /\ Has(At(data, "StatusTable"), "Status")
             [] g \in {"get_drivers_standings", "get_constructors_standings"} ->
                   /\ Has(data, "StandingsTable")
                   /\ Has(At(data, "StandingsTable"), "StandingsLists")
                   /\ HasFirst(At(At(data, "StandingsTable"), "StandingsLists"))
             [] g = "get_races" ->
                   Has(data, "RaceTable") /\ Has(At(data, "RaceTable"), "Races")
             [] OTHER ->
                   /\ Has(data, "RaceTable") /\ Has(At(data, "RaceTable"), "Races")
                   /\ HasFirst(At(At(data, "RaceTable"), "Races"))
Resource(g, body) ==
    LET data == At(body, "MRData")
        race == Val(At(At(data, "RaceTable"), "Races"))[1]
        standings == Val(At(At(data, "StandingsTable"), "StandingsLists"))[1]
    IN  CASE g = "get_drivers" -> At(At(data, "DriverTable"), "Drivers")
          [] g = "get_constructors" -> At(At(data, "ConstructorTable"), "Constructors")
          [] g = "get_circuits" -> At(At(data, "CircuitTable"), "Circuits")
          [] g = "get_seasons" -> At(At(data, "SeasonTable"), "Seasons")
          [] g = "get_finishing_statuses" -> At(At(data, "StatusTable"), "Status")
          [] g = "get_races" -> At(At(data, "RaceTable"), "Races")
          [] g = "get_race_results" -> At(race, "Results")
          [] g = "get_qualifying_results" -> At(race, "QualifyingResults")
          [] g = "get_sprint_results" -> At(race, "SprintResults")
          [] g = "get_lap_times" -> At(race, "Laps")
          [] g = "get_pit_stops" -> At(race, "PitStops")
          [] g = "get_drivers_standings" -> At(standings, "DriverStandings")
          [] g = "get_constructors_standings" -> At(standings, "ConstructorStandings")

\* the record type every getter is expected to return
ExpectedType(g) ==
    CASE g = "get_drivers" -> "DriverDTO"
      [] g = "get_constructors" -> "ConstructorDTO"
      [] g = "get_circuits" -> "CircuitDTO"
      [] g = "get_seasons" -> "SeasonDTO"
      [] g = "get_races" -> "RaceDTO"
      [] g = "get_race_results" -> "RaceResultDTO"
      [] g = "get_qualifying_results" -> "QualifyingResultDTO"
      [] g = "get_sprint_results" -> "SprintResultDTO"
      [] g = "get_drivers_standings" -> "DriverStandingDTO"
      [] g = "get_constructors_standings" -> "ConstructorStandingDTO"
      [] g = "get_finishing_statuses" -> "StatusDTO"
      [] g = "get_lap_times" -> "LapDTO"
      [] g = "get_pit_stops" -> "PitStopDTO"

\* the keyword arguments the record of an item is built from: the item, for a
\* race the item with its session objects flattened into it
Keywords(g, x) == IF g = "get_races" THEN flat_dict(x, SessionKeys) ELSE x

\* the value of the field named k of record r
FieldValue(r, k) ==
    DtoFields(r)[CHOOSE i \in 1..Len(DtoFields(r)) : DtoFields(r)[i][1] = k][2]
FieldNames(r) == {DtoFields(r)[i][1] : i \in 1..Len(DtoFields(r))}

\* record r is built from item x: it has the expected type, a field for every
\* key of the item, the item's value in every field that has no converter,
\* and it is the record the class builds of the item
BuiltFrom(g, r, x) ==
    /\ Tag(r) = "dto"
    /\ DtoClass(r) = ExpectedType(g)
    /\ Tag(x) = "dict"
    /\ DictKeys(Val(Keywords(g, x))) \subseteq FieldNames(r)
    /\ \A i \in 1..Len(Schema(DtoClass(r))) :
          LET f == Schema(DtoClass(r))[i]
          IN  (f.conv = "" /\ f.name \in DictKeys(Val(Keywords(g, x)))) =>
                  FieldValue(r, f.name) = At(Keywords(g, x), f.name)
    /\ r = Construct(ExpectedType(g), Keywords(g, x))

\* C3: every getter: a successful call returns a list with exactly as many
\* records as the resource array of the envelope has items, the i-th record
\* being the record of the expected type built from the i-th item.
C3_OneRecordPerItem ==
    (LastGetter /\ ~IsRaise(Last.result)) =>
        /\ LastAnswered
        /\ HasResource(Last.name, LastBody)
        /\ Tag(Resource(Last.name, LastBody)) = "list"
        /\ Tag(Last.result) = "list"
        /\ Len(Val(Last.result)) = Len(Val(Resource(Last.name, LastBody)))
        /\ \A i \in 1..Len(Val(Last.result)) :
              BuiltFrom(Last.name, Val(Last.result)[i], Val(Resource(Last.name, LastBody))[i])

\* get_races returned two different records for an array of two items
C3_Witness ==
    /\ LastGetter
    /\ Last.name = "get_races"
    /\ Tag(Last.result) = "list"
    /\ Len(Val(Last.result)) = 2
    /\ Len(Val(Resource(Last.name, LastBody))) = 2
    /\ Val(Last.result)[1] # Val(Last.result)[2]
    /\ FieldValue(Val(Last.result)[1], "firstpracticeDate") = PyDate(2022, 4, 22)

\* C5: get_drivers_standings and get_constructors_standings called with
\* winners=True request the fixed winners URL (base + driverStandings/1, resp.
\* constructorStandings/1, + .json?limit=1000), whatever year and race are.
C5_WinnersUrl ==
    (LastGetter /\ Tag(Last.winners) = "bool" /\ Val(Last.winners)) =>
        /\ Last.name = "get_drivers_standings" =>
              Last.url = base_url \o "driverStandings/1.json?limit=1000"
        /\ Last.name = "get_constructors_standings" =>
              Last.url = base_url \o "constructorStandings/1.json?limit=1000"

\* whether the coercion of some field of the class fails for the keyword
\* arguments d: a number field given no number, a date or time field given no
\* date or time, a nested record that cannot be built
SomeCoercionFails(cls, d) ==
    \E fields \in {Schema(cls)} : \E i \in 1..Len(fields) : \E f \in {fields[i]} :
        LET v == At(d, f.name)
        IN  /\ f.conv # ""
            /\ f.name \in DictKeys(Val(d))
            /\ ~(f.optional /\ Tag(v) = "none")
            /\ CASE f.conv = "int" -> IsRaise(py_int(v))
                 [] f.conv = "float" -> IsRaise(py_float(v))
                 [] f.conv = "to_date" -> IsRaise(to_date(v))
                 [] f.conv = "to_time" -> IsRaise(to_time(v))
                 [] f.conv = "dto" -> IsRaise(Construct(f.arg, v))
                 [] f.conv = "dto_list" -> IsRaise(ConstructEach(f.arg, Iterate(v), <<>>))

RECURSIVE FullyBuilt(_)
\* record r has every field of its class, in order, each holding a value of
\* the type its converter makes (or None where the field is optional)
FullyBuilt(r) ==
    /\ Tag(r) = "dto"
    /\ Len(DtoFields(r)) = Len(Schema(DtoClass(r)))
    /\ \A fields \in {Schema(DtoClass(r))} : \A i \in 1..Len(DtoFields(r)) :
          \A f \in {fields[i]} : \A v \in {DtoFields(r)[i][2]} :
              /\ DtoFields(r)[i][1] = f.name
              /\ \/ f.conv = ""
                 \/ f.optional /\ Tag(v) = "none"
                 \/ f.conv = "int" /\ Tag(v) = "int"
                 \/ f.conv = "float" /\ Tag(v) = "float"
                 \/ f.conv = "to_date" /\ Tag(v) = "date"
                 \/ f.conv = "to_time" /\ Tag(v) = "time"
                 \/ f.conv = "dto" /\ Tag(v) = "dto" /\ DtoClass(v) = f.arg /\ FullyBuilt(v)
                 \/ /\ f.conv = "dto_list"
                    /\ Tag(v) = "list"
                    /\ \A j \in 1..Len(Val(v)) :
                          Tag(Val(v)[j]) = "dto" /\ DtoClass(Val(v)[j]) = f.arg
                          /\ FullyBuilt(Val(v)[j])

\* the items of the resource array the getter was answered with
LastItems == Val(Resource(Last.name, LastBody))
LastHasItems ==
    /\ LastAnswered
    /\ HasResource(Last.name, LastBody)
    /\ Tag(Resource(Last.name, LastBody)) = "list"
    /\ \A i \in 1..Len(LastItems) : Tag(LastItems[i]) = "dict"

\* C10: record construction is all-or-nothing: when the coercion of a field
\* fails for an item of the response array, the getter fails as a whole and
\* returns no list, partial or not; every record a getter does return has all
\* its fields set, each to a coerced value.
C10_AllOrNothing ==
    LastGetter =>
        /\ (LastHasItems /\ \E i \in 1..Len(LastItems) :
                SomeCoercionFails(ExpectedType(Last.name), Keywords(Last.name, LastItems[i])))
              => IsRaise(Last.result)
        /\ ~IsRaise(Last.result) =>
              \A i \in 1..Len(Val(Last.result)) : FullyBuilt(Val(Last.result)[i])

\* a getter failed on the second item of an array whose first item builds a
\* record
C10_Witness ==
    /\ LastGetter
    /\ LastHasItems
    /\ Len(LastItems) = 2
    /\ ~IsRaise(Construct(ExpectedType(Last.name), Keywords(Last.name, LastItems[1])))
    /\ SomeCoercionFails(ExpectedType(Last.name), Keywords(Last.name, LastItems[2]))
    /\ Last.result = Raise("ValueError")

-----------------------------------------------------------------------------
(* SpecRec: a record is built, assigned to and converted *)

\* the number of attribute assignments made to a record
MaxSets == 1

\* the items records are built of: two of every getter's resource
RecordInputs == {<<g, RawItem(g, n)>> : g \in Getters, n \in {1, 2}}

\* the values assigned: a number, a text that is none
AttrValues == {S("7"), S("n/a")}

\* the attribute names assigned to: the fields of the class and one more
AttrNames(r) == {Schema(DtoClass(r))[i].name : i \in 1..Len(Schema(DtoClass(r)))} \cup {"nofield"}

InitRec ==
    /\ ClientIdle
    /\ inp \in RecordInputs
    /\ last = NoCall

\* r = XDTO(**x), as the getter inp[1] builds it
ConstructCall ==
    /\ LastOp = "none"
    /\ last' = <<"construct", [r |-> ItemRecord(inp[1], inp[2])]>>
    /\ ClientUnchanged
    /\ UNCHANGED inp

\* a record exists
HoldsRecord == LastOp \in {"construct", "setattr", "convert"} /\ ~IsRaise(Last.r)

\* r.name = value
SetAttrCall ==
    /\ HoldsRecord
    /\ ncalls < MaxSets
    /\ \E name \in AttrNames(Last.r), value \in AttrValues :
          \E done \in {setattr(Last.r, name, value)} :
              last' = <<"setattr",
                        [r |-> IF IsRaise(done) THEN Last.r ELSE done,
                         name |-> name, value |-> value,
                         result |-> IF IsRaise(done) THEN done ELSE PyNone]>>
    /\ ncalls' = ncalls + 1
    /\ UNCHANGED <<Cache_session, Cache_path, store, opened, clients, inp>>

\* r.to_dict(), r.to_flat_dict(), r.to_tuple(), r.to_json(), for the first and
\* for a second time
ConvertCall ==
    /\ HoldsRecord
    /\ last' = <<"convert",
                 [r |-> Last.r,
                  nth |-> IF LastOp = "convert" THEN 2 ELSE 1,
                  dict |-> to_dict(Last.r),
                  flat |-> to_flat_dict(Last.r),
                  tuple |-> to_tuple(Last.r),
                  json |-> to_json(Last.r)]>>
    /\ ClientUnchanged
    /\ UNCHANGED inp

NextRec ==
    \/ ConstructCall
    \/ SetAttrCall
    \/ ConvertCall

SpecRec == InitRec /\ [][NextRec]_vars

-----------------------------------------------------------------------------
(* Claims about the records *)

\* C11: records are immutable after construction: no later operation on a
\* record, attribute assignment included, changes the value of any of its
\* fields or of the fields of its nested records.
C11_NeverChanges ==
    [][HoldsRecord => Last'.r = Last.r]_vars

\* the tuple of the values of a dict, nested dicts and the dicts in lists
\* likewise
RECURSIVE TupleOfValues(_)
TupleOfValues(v) ==
    CASE Tag(v) = "dict" -> PyTuple([i \in 1..Len(Val(v)) |-> TupleOfValues(Val(v)[i][2])])
      [] Tag(v) = "list" -> PyList([i \in 1..Len(Val(v)) |-> TupleOfValues(Val(v)[i])])
      [] OTHER -> v

\* v with every date and time replaced by its ISO-8601 string
RECURSIVE IsoStrings(_)
IsoStrings(v) ==
    CASE Tag(v) \in {"date", "time"} -> PyStr(isoformat(v))
      [] Tag(v) = "dict" ->
            PyDict([i \in 1..Len(Val(v)) |-> <<Val(v)[i][1], IsoStrings(Val(v)[i][2])>>])
      [] Tag(v) = "list" -> PyList([i \in 1..Len(Val(v)) |-> IsoStrings(Val(v)[i])])
      [] OTHER -> v

\* C12: for every record the four conversions agree on the same field values:
\* to_dict maps the field names, in declaration order, to the field values,
\* to_tuple lists the values to_dict maps the names to (nested records
\* converted recursively), to_flat_dict is flat_dict(to_dict) without
\* restriction, to_json encodes to_dict with dates and times as ISO-8601
\* strings; converting changes no field and a repeated conversion of the
\* unchanged record gives the identical results.
C12_ConversionsAgree ==
    [][LastOp' = "convert" =>
          /\ Last'.r = Last.r
          /\ [i \in 1..Len(Val(Last'.dict)) |-> Val(Last'.dict)[i][1]]
                = [i \in 1..Len(Schema(DtoClass(Last.r))) |-> Schema(DtoClass(Last.r))[i].name]
          /\ \A i \in 1..Len(Val(Last'.dict)) :
                Tag(DtoFields(Last.r)[i][2]) \notin {"dto", "list"} =>
                    Val(Last'.dict)[i][2] = DtoFields(Last.r)[i][2]
          /\ Last'.tuple = TupleOfValues(Last'.dict)
          /\ Last'.flat = flat_dict(Last'.dict, PyNone)
          /\ Last'.json = PyStr(JsonEncode(IsoStrings(Last'.dict)))
          /\ LastOp = "convert" =>
                /\ Last'.dict = Last.dict /\ Last'.flat = Last.flat
                /\ Last'.tuple = Last.tuple /\ Last'.json = Last.json]_vars

\* a race, with its nested circuit and its dates and times, was converted a
\* second time after an assignment
C12_Witness ==
    /\ LastOp = "convert"
    /\ Last.nth = 2
    /\ ncalls = 1
    /\ DtoClass(Last.r) = "RaceDTO"
    /\ Tag(At(Last.dict, "Circuit")) = "dict"
    /\ Tag(At(Last.dict, "firstpracticeTime")) = "time"
    /\ Tag(Val(Last.tuple)[5]) = "tuple"

-----------------------------------------------------------------------------
(* Claims about the failures of the getters *)

\* the declared failure kinds as the code raises them: WrongDirectory,
\* HTTPError, WrongQueryParameters, and for a field value that cannot be
\* coerced the ValueError or TypeError of the converter
DeclaredFailures ==
    {"WrongDirectory", "HTTPError", "WrongQueryParameters", "ValueError", "TypeError"}

\* C13: every getter call the server answers with a JSON body either returns
\* a list of records or fails with one of the declared failure kinds; no other
\* kind of failure reaches the caller, also when the envelope has a total > 0
\* but lacks the nested array or the first race entry, or when an item carries
\* unexpected keys.
C13_DeclaredFailuresOnly ==
    (LastGetter /\ ~IsRaise(Last.out) /\ Val(Last.out).body # NotJson) =>
        \/ Tag(Last.result) = "list"
        \/ IsRaise(Last.result) /\ Kind(Last.result) \in DeclaredFailures

\* the keys of item x that are no field of the record type of getter g; the
\* five session objects of a race are flattened into fields
SessionNames == {Val(SessionKeys)[i] : i \in 1..Len(Val(SessionKeys))}
FieldNamesOf(cls) ==
    UNION {{fields[i].name : i \in 1..Len(fields)} : fields \in {Schema(cls)}}
UndeclaredAmong(names, g, x) ==
    {k \in DictKeys(Val(x)) :
        /\ k \notin names
        /\ ~(g = "get_races" /\ k \in SessionNames /\ Tag(At(x, k)) = "dict")}
UndeclaredKeys(g, x) ==
    UNION {UndeclaredAmong(names, g, x) : names \in {FieldNamesOf(ExpectedType(g))}}

\* C20: a raw item that carries a key which is not a declared field of its
\* record type makes the construction, and so the getter, fail instead of
\* being ignored (with a TypeError when no earlier failure ends the call); in
\* get_races a nested session object whose key is not one of FirstPractice,
\* SecondPractice, ThirdPractice, Qualifying, Sprint is passed through
\* unflattened under its own key and so makes the whole call fail.
C20_UndeclaredKeyFails ==
    (LastGetter /\ LastHasItems) =>
        \A names \in {FieldNamesOf(ExpectedType(Last.name))} :
        \A items \in {LastItems} :
        \A i \in 1..Len(items) :
            \A k \in UndeclaredAmong(names, Last.name, items[i]) :
                /\ IsRaise(Last.result)
                /\ IsRaise(Construct(ExpectedType(Last.name), Keywords(Last.name, items[i])))
                /\ (i = 1 /\ TotalOf(Val(Last.out)) > 0) => Last.result = Raise("TypeError")
                /\ Last.name = "get_races" =>
                      /\ Has(Keywords(Last.name, items[i]), k)
                      /\ At(Keywords(Last.name, items[i]), k) = At(items[i], k)

\* get_races failed on the second race, which carries a session object that
\* is not flattened, after a first race that builds a record
C20_Witness ==
    /\ LastGetter
    /\ Last.name = "get_races"
    /\ LastHasItems
    /\ Len(LastItems) = 2
    /\ UndeclaredKeys(Last.name, LastItems[1]) = {}
    /\ ~IsRaise(Construct("RaceDTO", Keywords(Last.name, LastItems[1])))
    /\ UndeclaredKeys(Last.name, LastItems[2]) = {"SprintQualifying"}
    /\ Tag(At(Keywords(Last.name, LastItems[2]), "SprintQualifying")) = "dict"
    /\ Last.result = Raise("TypeError")

-----------------------------------------------------------------------------
(* SpecTime: to_time applied to time strings, well-formed and not *)

\* the strings given to to_time: hours, minutes and seconds of one and two
\* digits, in and out of range, joined by ":" or by "-", followed by "Z", by
\* another character, or by nothing; and values that are no strings
TimeHours == {"00", "7", "13", "21", "23", "24"}
TimeMinutes == {"00", "42", "60"}
TimeSeconds == {"00", "15", "5", "61"}
TimeSuffixes == {"Z", "z", "X", "0", ""}
TimeInputs ==
    {S(h \o sep \o m \o sep \o s \o z) :
        h \in TimeHours, m \in TimeMinutes, s \in TimeSeconds,
        z \in TimeSuffixes, sep \in {":", "-"}}
    \cup {S(""), S("Z"), S("21:42Z"), PyNone, PyInt(214215)}

InitTime ==
    /\ ClientIdle
    /\ inp \in TimeInputs
    /\ last = NoCall

\* to_time(f)
ToTimeCall ==
    /\ last = NoCall
    /\ last' = <<"to_time", [f |-> inp, result |-> to_time(inp)]>>
    /\ UNCHANGED inp
    /\ ClientUnchanged

NextTime == ToTimeCall

SpecTime == InitTime /\ [][NextTime]_vars

\* text is an hour, a minute and a second as strptime's %H:%M:%S reads them:
\* three numbers of one or two digits joined by ":", within 0..23, 0..59, 0..59
MatchesHMS(text) ==
    LET parts == SplitOn(text, ":")
    IN  /\ Len(parts) = 3
        /\ \A i \in 1..3 : OneOrTwoDigits(parts[i])
        /\ ParseNat(parts[1]) <= 23
        /\ ParseNat(parts[2]) <= 59
        /\ ParseNat(parts[3]) <= 59
HMSOf(text) ==
    LET parts == SplitOn(text, ":")
    IN  PyTime(ParseNat(parts[1]), ParseNat(parts[2]), ParseNat(parts[3]))

\* C17: to_time: an input of the form HH:MM:SSZ yields the UTC time of day
\* HH:MM:SS; an input whose last character is not 'Z', or whose remainder does
\* not match HH:MM:SS, is rejected with a failure.
C17_TrailingZRequired ==
    (LastOp = "to_time" /\ Tag(Last.f) = "str") =>
        LET f == Val(Last.f)
            endsInZ == f # "" /\ Chr(f, Len(f)) = "Z"
            rest == SubSeq(f, 1, Len(f) - 1)
        IN  IF endsInZ /\ MatchesHMS(rest)
            THEN Last.result = HMSOf(rest)
            ELSE IsRaise(Last.result)

-----------------------------------------------------------------------------
(* SpecSwap: a getter whose year defaults to None is called with only a race,
   and with the same value as its only year, from the same state *)

\* the getters whose year and race both default to None
NullYearGetters ==
    {"get_drivers", "get_constructors", "get_circuits", "get_finishing_statuses"}

\* the value given as the race or as the year: numbers, 0 too, and a text
SwapValues == {PyInt(4), PyInt(2022), PyInt(0), PyStr("last")}

\* the calls: <<getter, value, client, what the cache holds for the URL of the
\* value as year (nothing, or the response an earlier call stored, unexpired
\* or expired), answer of the server>>
SwapCalls ==
    UNION {{<<g, r, i, cache, net>> :
                r \in SwapValues, i \in {1, 2}, cache \in {"none", "fresh", "stale"},
                net \in GetterNetOutcomes(g, 1)}
           : g \in NullYearGetters}

\* two clients exist, the second one caching in the directory d1, whose cache
\* file is empty or holds a response to an earlier call of the getter
InitSwap ==
    /\ clients = <<Yuki("Yukinator", FALSE, PyStr("d1"), PyInt(3600), PyBool(FALSE)),
                   Yuki("Yukinator", TRUE, PyStr("d1"), PyInt(3600), PyBool(FALSE))>>
    /\ Cache_path = "d1"
    /\ Cache_session = Session("d1/yuki_cache", "Yukinator", PyInt(3600))
    /\ opened = {"d1/yuki_cache"}
    /\ ncalls = 2
    /\ inp \in SwapCalls
    /\ store =
          IF inp[4] = "none" THEN EmptyStore
          ELSE [EmptyStore EXCEPT !["d1/yuki_cache"] =
                   {[url |-> GetterUrl(inp[1], inp[2], PyNone, DefaultLap, DefaultWinners),
                     resp |-> Response(200, Body(inp[1], "1", <<RawItem(inp[1], 2)>>)),
                     fresh |-> inp[4] = "fresh"]}]
    /\ last = NoCall

\* clients[i].get_...(race=r), and clients[i].get_...(year=r) made in its
\* place, in the same state and with the same answer of the server
SwapCall ==
    /\ LastOp = "none"
    /\ \E both \in {{<<which, getter(clients[inp[3]], inp[1],
                                     IF which = "year" THEN inp[2] ELSE Omitted,
                                     IF which = "race" THEN inp[2] ELSE Omitted,
                                     Omitted, Omitted, inp[5])>>
                      : which \in {"race", "year"}}} :
          \E by_race \in {c[2] : c \in {c \in both : c[1] = "race"}},
             by_year \in {c[2] : c \in {c \in both : c[1] = "year"}} :
              /\ store' = by_race.store
              /\ last' = <<"getter_swap",
                           [name |-> inp[1], self |-> clients[inp[3]], value |-> inp[2],
                            cached |-> IF clients[inp[3]].cache_enabled
                                       THEN Cached("d1/yuki_cache", by_race.url) ELSE {},
                            by_race |-> by_race, by_year |-> by_year]>>
    /\ UNCHANGED <<Cache_session, Cache_path, opened, clients, ncalls, inp>>

NextSwap == SwapCall

SpecSwap == InitSwap /\ [][NextSwap]_vars

=============================================================================
